---- MODULE Spec2Model ----
(***************************************************************************)
(* Reservation lifecycle, credit ledger (tickets, subscriptions) and group *)
(* assignment of the evenlyf backend (src/backend/users), as a state       *)
(* machine over the stored rows.                                           *)
(*                                                                         *)
(* Time is counted in seconds.  Day 0 is Monday 2024-06-03, so that        *)
(* Tuesday 2024-06-04 is day 1, Tuesday 2024-06-11 is day 8 and Thursday   *)
(* 2024-06-13 is day 10; a date is a day number and date.weekday() is      *)
(* day % 7 (Monday = 0).                                                   *)
(***************************************************************************)
EXTENDS Integers, Sequences, FiniteSets, TLC

VARIABLES
    now,            \* timezone.now(): the wall clock, in seconds
    reservations,   \* Reservation rows; the row's id is its index
    tickets,        \* UserTicket rows; the row's id is its index
    subscriptions,  \* UserSubscription rows; the row's id is its index
    groups,         \* EventGroup rows; the row's id is its index
    memberships,    \* GroupMembership rows, in insertion order
    requests,       \* requests in flight: each one's position and locals
    invitations,    \* FriendInvitation rows; the row's id and token are its index
    accounts,       \* User rows, by email
    last,           \* the confirm-payment request delivered last
    probe           \* input and result of a pure computation (deadline algorithms)

vars == <<now, reservations, tickets, subscriptions, groups, memberships,
          requests, invitations, accounts, last, probe>>

-----------------------------------------------------------------------------
(* Dates and times *)

SecondsPerDay == 24 * 60 * 60

\* datetime.combine(date, time(h, m, s)), made aware
At(d, h, m, s) == d * SecondsPerDay + h * 3600 + m * 60 + s

\* date.weekday(): Monday = 0 .. Sunday = 6
weekday(d) == d % 7

\* datetime.date()
DateOf(t) == t \div SecondsPerDay

\* a null DateTimeField / null foreign key
NoTime == -1
NoId == 0

-----------------------------------------------------------------------------
(* Reservation.set_cancellation_deadline *)

\* the mutant: the "event falls on a Tuesday" branch left out
set_cancellation_deadline_NoTuesdayCase(reservation_date) ==
    At(reservation_date - ((weekday(reservation_date) - 1) % 7), 23, 59, 0)

set_cancellation_deadline(reservation_date) ==
    LET days_before_tuesday == (weekday(reservation_date) - 1) % 7
        tuesday_before == IF days_before_tuesday = 0
                          THEN reservation_date - 7
                          ELSE reservation_date - days_before_tuesday
    IN  At(tuesday_before, 23, 59, 0)

-----------------------------------------------------------------------------
(* Stored rows *)

\* the users who send requests; those of Owners create rows
Users == {"a", "b"}
Owners == {"a"}

\* a User row: the fields the invitation flow reads and writes
Account(password, is_invited_user, invitation_used) ==
    [password |-> password, is_invited_user |-> is_invited_user,
     invitation_used |-> invitation_used]

\* stripe_payment_intent_id: '' | a raw payment reference | 'pi_test_local_dev'
\* | f'ticket_{id}' | f'subscription_{id}'.  A reference is kept as its prefix
\* and the number that follows it, so that startswith() reads the prefix.
Ref(tag, id) == [tag |-> tag, id |-> id]
NoRef == Ref("", 0)
LocalDevRef == Ref("pi_test_local_dev", 0)
startswith(ref, prefix) == ref.tag = prefix

\* Reservation.objects.create(...) followed by Reservation.save(): the
\* deadline is computed when the row has none.  "via" records the view that
\* created the row (not a column of the table).
NewReservation(user, data, status, paid_at, ref, via) ==
    [user |-> user,
     activity_name |-> data.activity_name,
     reservation_date |-> data.reservation_date,
     price_plan |-> data.price_plan,
     price_amount |-> data.price_amount,
     status |-> status,
     stripe_payment_intent_id |-> ref,
     paid_at |-> paid_at,
     cancellation_deadline |-> set_cancellation_deadline(data.reservation_date),
     via |-> via]

\* Reservation.is_modifiable
is_modifiable(r) ==
    IF r.cancellation_deadline = NoTime THEN FALSE
    ELSE now < r.cancellation_deadline

TicketTTLDays == 180
PurchasedTicketTTLDays == 365

NewTicket(user, amount, source, original_reservation, expires_at) ==
    [user |-> user,
     amount |-> amount,
     status |-> "ACTIVE",
     source |-> source,
     original_reservation |-> original_reservation,
     used_for_reservation |-> NoId,
     expires_at |-> expires_at,
     used_at |-> NoTime]

\* the mutant: the status is not looked at
ticket_is_valid_AnyStatus(t, at) ==
    ~(t.expires_at # NoTime /\ at > t.expires_at)

\* UserTicket.is_valid, read at time "at"
ticket_is_valid(t, at) ==
    IF t.status # "ACTIVE" THEN FALSE
    ELSE IF t.expires_at # NoTime /\ at > t.expires_at THEN FALSE
    ELSE TRUE

\* UserSubscription.is_active
subscription_is_active(s) ==
    IF s.status # "ACTIVE" THEN FALSE ELSE now <= s.end_date

can_make_reservation_IgnoresCurrent(s) == subscription_is_active(s)

\* UserSubscription.can_make_reservation
can_make_reservation(s) ==
    IF ~subscription_is_active(s) THEN FALSE
    ELSE \/ s.current_reservation = NoId
         \/ reservations[s.current_reservation].status \in {"CANCELLED", "COMPLETED"}

\* the mutant: the slot is kept, only the counter goes down
release_reservation_KeepsSlot(s) ==
    IF s.current_reservation # NoId
    THEN [s EXCEPT !.reservations_used = IF @ > 0 THEN @ - 1 ELSE 0]
    ELSE s

\* UserSubscription.release_reservation
release_reservation(s) ==
    IF s.current_reservation # NoId
    THEN [s EXCEPT !.current_reservation = NoId,
                   !.reservations_used = IF @ > 0 THEN @ - 1 ELSE 0]
    ELSE s

\* UserSubscription.use_for_reservation
use_for_reservation(s, rid) ==
    [s EXCEPT !.current_reservation = rid, !.reservations_used = @ + 1]

get_active_subscription_None(user) == NoId

\* cls.objects.filter(user=user, status='ACTIVE', end_date__gt=now).first(),
\* under Meta.ordering = ['-created_at']: the newest matching row, 0 for None
get_active_subscription(user) ==
    LET S == {i \in DOMAIN subscriptions :
                 /\ subscriptions[i].user = user
                 /\ subscriptions[i].status = "ACTIVE"
                 /\ subscriptions[i].end_date > now}
    IN  IF S = {} THEN NoId ELSE CHOOSE i \in S : \A j \in S : j <= i

\* a confirm-payment request as delivered: user, reference, status, payload
Delivery(endpoint, user, payment_intent_id, status_payment, data) ==
    [endpoint |-> endpoint, user |-> user, payment_intent_id |-> payment_intent_id,
     status_payment |-> status_payment, data |-> data]

NoData == [activity_name |-> "", reservation_date |-> 0,
           price_plan |-> "", price_amount |-> 0]

\* no confirmation has been delivered
NoDelivery == Delivery("", "", NoRef, "", NoData)

-----------------------------------------------------------------------------
(* The deadline computations on their own: probe.date is the input,        *)
(* probe.out the computed value.                                           *)

FirstProbeDate == 7
MaxProbeDate == 60
ProbeDates == FirstProbeDate .. MaxProbeDate

Quiet ==
    /\ now = At(7, 12, 0, 0)
    /\ tickets = <<>>
    /\ subscriptions = <<>>
    /\ groups = <<>>
    /\ memberships = <<>>
    /\ requests = <<>>
    /\ invitations = <<>>
    /\ accounts = [u \in Users |-> Account("secret", FALSE, NoId)]
    /\ last = NoDelivery

\* nothing has been booked yet
Idle == Quiet /\ reservations = <<>>

InitDeadline ==
    /\ Idle
    /\ probe \in [f : {"none"}, date : ProbeDates, out : {NoTime}]

ComputeCancellationDeadline ==
    /\ probe.f = "none"
    /\ probe' = [probe EXCEPT !.f = "set_cancellation_deadline",
                              !.out = set_cancellation_deadline(probe.date)]
    /\ UNCHANGED <<now, reservations, tickets, subscriptions, groups,
                   memberships, requests, last>>

NextDeadline == ComputeCancellationDeadline /\ UNCHANGED <<invitations, accounts>>

SpecDeadline == InitDeadline /\ [][NextDeadline]_vars

\* the Tuesdays T with 1 <= D - T <= 7
TuesdaysBefore(D) == {T \in (D - 7) .. (D - 1) : weekday(T) = 1}

-----------------------------------------------------------------------------
(* The request handlers, one request at a time.  A handler leaves "last"   *)
(* to the specification that uses it, and each specification bounds the    *)
(* number of rows it lets the tables grow to.                              *)

\* the reservation_data a client sends
Payloads ==
    { [activity_name |-> "Bowling", reservation_date |-> 10,
       price_plan |-> "TICKET", price_amount |-> 25],
      [activity_name |-> "Bowling", reservation_date |-> 11,
       price_plan |-> "ticket", price_amount |-> 15],
      [activity_name |-> "Karaoke", reservation_date |-> 9,
       price_plan |-> "basic", price_amount |-> 10] }

\* the payment intents Stripe knows: stripe.PaymentIntent.retrieve(id)
\* raises StripeError for any other id
StripeIntents ==
    [n \in {1, 2} |->
        IF n = 1
        THEN [status |-> "succeeded",
              metadata |-> [activity_name |-> "Bowling", reservation_date |-> 10,
                            price_plan |-> "TICKET", price_amount |-> 25]]
        ELSE [status |-> "requires_payment_method",
              metadata |-> [activity_name |-> "Karaoke", reservation_date |-> 9,
                            price_plan |-> "basic", price_amount |-> 10]]]

Tick(instants) ==
    /\ \E t \in instants : t > now /\ now' = t
    /\ UNCHANGED <<reservations, tickets, subscriptions, groups, memberships,
                   requests, probe>>

\* ReservationView.post
CreateReservation(user, data, payment_intent_id) ==
    /\ LET created == NewReservation(user, data, "CONFIRMED", NoTime,
                                     payment_intent_id, "direct")
           saved == IF payment_intent_id # NoRef
                    THEN [created EXCEPT !.paid_at = now]
                    ELSE created
       IN  reservations' = Append(reservations, saved)
    /\ UNCHANGED <<now, tickets, subscriptions, groups, memberships, requests, probe>>

PendingReservation_Oldest(user) ==
    LET P == {i \in DOMAIN reservations :
                 reservations[i].user = user /\ reservations[i].status = "PENDING"}
    IN  IF P = {} THEN NoId ELSE CHOOSE i \in P : \A j \in P : i <= j

\* Reservation.objects.get(user=user, status='PENDING'), and on
\* MultipleObjectsReturned .order_by('-created_at').first(): 0 for DoesNotExist
PendingReservation(user) ==
    LET P == {i \in DOMAIN reservations :
                 reservations[i].user = user /\ reservations[i].status = "PENDING"}
    IN  IF P = {} THEN NoId ELSE CHOOSE i \in P : \A j \in P : j <= i

\* the three writes that mark a pending reservation as paid
MarkPaid(rid, payment_intent_id) ==
    [reservations EXCEPT ![rid].status = "CONFIRMED",
                         ![rid].paid_at = now,
                         ![rid].stripe_payment_intent_id = payment_intent_id]

\* users.views.ConfirmPaymentView.post; data = NoData when the request
\* carries no reservation_data
ConfirmPayment(user, payment_intent_id, status_payment, data) ==
    /\ UNCHANGED <<now, subscriptions, groups, memberships, requests, probe>>
    /\ IF payment_intent_id = NoRef
       THEN UNCHANGED <<reservations, tickets>>
       ELSE IF payment_intent_id = LocalDevRef /\ status_payment = "succeeded"
       THEN IF data # NoData
            THEN \* the reservation is created with the payment
                 /\ reservations' = Append(reservations,
                        NewReservation(user, data, "CONFIRMED", now,
                                       payment_intent_id, "payment"))
                 /\ IF data.price_plan = "ticket"
                    THEN tickets' = Append(tickets,
                                NewTicket(user, data.price_amount, "REFUND", NoId,
                                          now + PurchasedTicketTTLDays * SecondsPerDay))
                    ELSE UNCHANGED tickets
            ELSE \* the pending reservation of the user is marked as paid
                 IF PendingReservation(user) = NoId
                 THEN UNCHANGED <<reservations, tickets>>
                 ELSE /\ reservations' = MarkPaid(PendingReservation(user),
                                                  payment_intent_id)
                      /\ UNCHANGED tickets
       ELSE \* production: the intent is read from Stripe
            IF ~(payment_intent_id.tag = "pi_" /\ payment_intent_id.id \in DOMAIN StripeIntents)
            THEN UNCHANGED <<reservations, tickets>>
            ELSE LET intent == StripeIntents[payment_intent_id.id] IN
                 IF intent.status # "succeeded"
                 THEN UNCHANGED <<reservations, tickets>>
                 ELSE /\ reservations' = Append(reservations,
                             NewReservation(user, intent.metadata, "CONFIRMED", now,
                                            payment_intent_id, "payment"))
                      /\ UNCHANGED tickets

\* payments.views.ConfirmPaymentView.post
PaymentsConfirmPayment(user, payment_intent_id, status_payment) ==
    /\ UNCHANGED <<now, tickets, subscriptions, groups, memberships, requests, probe>>
    /\ IF PendingReservation(user) = NoId
       THEN UNCHANGED reservations
       ELSE IF status_payment = "succeeded"
       THEN reservations' = MarkPaid(PendingReservation(user), payment_intent_id)
       ELSE UNCHANGED reservations

\* the deadline ReservationCancelView.post computes for itself
CancelViewDeadline(r) == At(r.reservation_date - 2, 23, 59, 0)

\* the mutant: the price plan is not looked at
should_create_ticket_AnyPlan(r) ==
    LET ref == r.stripe_payment_intent_id
    IN  /\ ~(ref # NoRef /\ startswith(ref, "ticket_"))
        /\ ~(ref # NoRef /\ startswith(ref, "subscription_"))

\* ReservationCancelView.post, for a paid reservation: should_create_ticket
should_create_ticket(r) ==
    LET ref == r.stripe_payment_intent_id
        was_paid_with_ticket == ref # NoRef /\ startswith(ref, "ticket_")
        was_paid_with_subscription == ref # NoRef /\ startswith(ref, "subscription_")
        is_ticket_plan == r.price_plan = "TICKET"
    IN  is_ticket_plan /\ ~was_paid_with_ticket /\ ~was_paid_with_subscription

\* the mutant: the refund is of a fixed amount
CancellationTicket_FixedAmount(user, rid, r) ==
    NewTicket(user, 10, "CANCELLATION", rid, now + TicketTTLDays * SecondsPerDay)

\* the ticket ReservationCancelView.post creates
CancellationTicket(user, rid, r) ==
    NewTicket(user, r.price_amount, "CANCELLATION", rid,
              now + TicketTTLDays * SecondsPerDay)

\* UserSubscription.objects.filter(user=user, current_reservation=r).first()
SubscriptionHolding(user, rid) ==
    LET S == {i \in DOMAIN subscriptions :
                 /\ subscriptions[i].user = user
                 /\ subscriptions[i].current_reservation = rid}
    IN  IF S = {} THEN NoId ELSE CHOOSE i \in S : \A j \in S : j <= i

\* the mutant: the reservation is looked up by id alone
CancelReservationCode_AnyOwner(user, rid) ==
    IF rid \notin DOMAIN reservations THEN 404
    ELSE IF now > CancelViewDeadline(reservations[rid]) THEN 400
    ELSE 200

\* the status code ReservationCancelView.post answers with
CancelReservationCode(user, rid) ==
    IF ~(rid \in DOMAIN reservations /\ reservations[rid].user = user) THEN 404
    ELSE IF now > CancelViewDeadline(reservations[rid]) THEN 400
    ELSE 200

\* ReservationCancelView.post
CancelReservation(user, rid) ==
    /\ UNCHANGED <<now, groups, memberships, requests, probe>>
    /\ IF CancelReservationCode(user, rid) # 200
       THEN UNCHANGED <<reservations, tickets, subscriptions>>
       ELSE LET r == reservations[rid]
                ref == r.stripe_payment_intent_id
                was_paid_with_subscription ==
                    ref # NoRef /\ startswith(ref, "subscription_")
                sid == SubscriptionHolding(user, rid)
            IN
            /\ IF r.paid_at # NoTime /\ was_paid_with_subscription /\ sid # NoId
               THEN subscriptions' =
                       [subscriptions EXCEPT ![sid] = release_reservation(@)]
               ELSE UNCHANGED subscriptions
            /\ IF r.paid_at # NoTime /\ should_create_ticket(r)
               THEN tickets' = Append(tickets, CancellationTicket(user, rid, r))
               ELSE UNCHANGED tickets
            /\ reservations' = [reservations EXCEPT ![rid].status = "CANCELLED"]

\* UserTicket.use_ticket, on the object the view holds (t), at time "at":
\* the row written by save(); when it raises ValueError nothing is written
\* and the row is as it was
use_ticket(t, rid, at) ==
    IF ~ticket_is_valid(t, at) THEN t
    ELSE [t EXCEPT !.status = "USED", !.used_for_reservation = rid, !.used_at = at]

\* the status code UseTicketView.post answers with before it writes anything
UseTicketCode(user, ticket_id) ==
    IF ~(ticket_id \in DOMAIN tickets /\ tickets[ticket_id].user = user) THEN 404
    ELSE IF ~ticket_is_valid(tickets[ticket_id], now) THEN 400
    ELSE 200

\* UseTicketView.post, handled without interruption
UseTicket(user, ticket_id, data) ==
    /\ UNCHANGED <<now, subscriptions, groups, memberships, requests, probe>>
    /\ IF UseTicketCode(user, ticket_id) # 200
       THEN UNCHANGED <<reservations, tickets>>
       ELSE /\ reservations' = Append(reservations,
                   NewReservation(user, data, "CONFIRMED", now,
                                  Ref("ticket_", ticket_id), "ticket"))
            /\ tickets' = [tickets EXCEPT
                              ![ticket_id] = use_ticket(@, Len(reservations) + 1, now)]

SubscriptionDays(subscription_type) ==
    CASE subscription_type = "MONTHLY" -> 30
      [] subscription_type = "QUARTERLY" -> 90
      [] OTHER -> 180

\* UserSubscriptionView.post
CreateSubscription(user, subscription_type) ==
    /\ UNCHANGED <<now, reservations, tickets, groups, memberships, requests, probe>>
    /\ IF subscription_type \notin {"MONTHLY", "QUARTERLY", "SEMESTRIAL"}
       THEN UNCHANGED subscriptions
       ELSE IF get_active_subscription(user) # NoId
       THEN UNCHANGED subscriptions
       ELSE subscriptions' = Append(subscriptions,
                   [user |-> user,
                    subscription_type |-> subscription_type,
                    status |-> "ACTIVE",
                    start_date |-> now,
                    end_date |-> now + SubscriptionDays(subscription_type) * SecondsPerDay,
                    reservations_used |-> 0,
                    current_reservation |-> NoId])

\* UserSubscriptionView.delete
CancelSubscription(user) ==
    LET sid == get_active_subscription(user)
    IN
    /\ UNCHANGED <<now, reservations, tickets, groups, memberships, requests, probe>>
    /\ IF sid = NoId
       THEN UNCHANGED subscriptions
       ELSE subscriptions' = [subscriptions EXCEPT ![sid].status = "CANCELLED"]

\* CreateReservationWithSubscriptionView.post
CreateReservationWithSubscription(user, data) ==
    LET sid == get_active_subscription(user)
        rid == Len(reservations) + 1
    IN
    /\ UNCHANGED <<now, tickets, groups, memberships, requests, probe>>
    /\ IF sid = NoId
       THEN UNCHANGED <<reservations, subscriptions>>
       ELSE IF ~can_make_reservation(subscriptions[sid])
       THEN UNCHANGED <<reservations, subscriptions>>
       ELSE /\ LET created ==
                       NewReservation(user,
                           [data EXCEPT !.price_plan = "SUBSCRIPTION",
                                        !.price_amount = 0],
                           "CONFIRMED", now, Ref("subscription_", sid), "subscription")
                   saved == [created EXCEPT
                                !.cancellation_deadline =
                                    At(data.reservation_date - 2, 23, 59, 0)]
               IN  reservations' = Append(reservations, saved)
            /\ subscriptions' =
                   [subscriptions EXCEPT ![sid] = use_for_reservation(@, rid)]

\* ReservationAdmin.confirm_reservations: queryset.update(status='CONFIRMED')
AdminConfirmReservations(queryset) ==
    /\ reservations' = [i \in DOMAIN reservations |->
                           IF i \in queryset
                           THEN [reservations[i] EXCEPT !.status = "CONFIRMED"]
                           ELSE reservations[i]]
    /\ UNCHANGED <<now, tickets, subscriptions, groups, memberships, requests, probe>>

\* AdminUsersManagementView.post, action 'expire_tickets'
AdminExpireTickets(target_user) ==
    /\ tickets' = [i \in DOMAIN tickets |->
                      IF tickets[i].user = target_user /\ tickets[i].status = "ACTIVE"
                      THEN [tickets[i] EXCEPT !.status = "EXPIRED"]
                      ELSE tickets[i]]
    /\ UNCHANGED <<now, reservations, subscriptions, groups, memberships, requests, probe>>

-----------------------------------------------------------------------------
(* The reservation lifecycle and the credit ledger *)

\* the instants at which requests arrive
Clock == {At(8, 23, 59, 0), At(8, 23, 59, 30)}

\* what a client may send as payment_intent_id
DirectRefs == {NoRef, Ref("pi_", 1)}
SubscriptionTypes == {"MONTHLY", "WEEKLY"}

MaxReservations == 2
MaxTickets == 2
MaxSubscriptions == 1

Init ==
    /\ Idle
    /\ probe = [f |-> "none", date |-> 0, out |-> NoTime]

Next ==
    /\ UNCHANGED <<last, invitations, accounts>>
    /\ \/ Tick(Clock)
       \/ \E u \in Owners, d \in Payloads, ref \in DirectRefs : CreateReservation(u, d, ref)
       \/ \E u \in Owners, d \in Payloads : ConfirmPayment(u, LocalDevRef, "succeeded", d)
       \/ \E u \in Users, rid \in 1 .. MaxReservations : CancelReservation(u, rid)
       \/ \E u \in Users, tid \in 1 .. MaxTickets, d \in Payloads : UseTicket(u, tid, d)
       \/ \E u \in Owners, ty \in SubscriptionTypes : CreateSubscription(u, ty)
       \/ \E u \in Users : CancelSubscription(u)
       \/ \E u \in Users, d \in Payloads : CreateReservationWithSubscription(u, d)
       \/ \E q \in SUBSET (DOMAIN reservations) : q # {} /\ AdminConfirmReservations(q)
       \/ \E u \in Users : AdminExpireTickets(u)
    /\ Len(reservations') <= MaxReservations
    /\ Len(tickets') <= MaxTickets
    /\ Len(subscriptions') <= MaxSubscriptions

Spec == Init /\ [][Next]_vars

-----------------------------------------------------------------------------
(* Cancellation and refund *)

Paid(r) == r.paid_at # NoTime
SettledWithTicket(r) == startswith(r.stripe_payment_intent_id, "ticket_")
SettledWithSubscription(r) == startswith(r.stripe_payment_intent_id, "subscription_")
DirectPayment(r) == ~SettledWithTicket(r) /\ ~SettledWithSubscription(r)

\* the step is a cancel request of user u for reservation rid that succeeds
CancelSucceeds(u, rid) ==
    CancelReservationCode(u, rid) = 200 /\ CancelReservation(u, rid)

\* the step adds exactly one ticket and changes no other
OneTicketIssued ==
    /\ Len(tickets') = Len(tickets) + 1
    /\ \A i \in DOMAIN tickets : tickets'[i] = tickets[i]

\* C1: a successful cancel of a paid reservation R that was settled by direct
\* payment and has the TICKET price plan creates exactly one new ticket, which
\* is ACTIVE, owned by R's user, of amount R.price_amount and has
\* original_reservation = R.
C1_CancelIssuesTicket ==
    [][\A u \in Users, rid \in DOMAIN reservations :
        (/\ CancelSucceeds(u, rid)
         /\ Paid(reservations[rid])
         /\ DirectPayment(reservations[rid])
         /\ reservations[rid].price_plan = "TICKET")
        => /\ OneTicketIssued
           /\ LET t == tickets'[Len(tickets')]
              IN  /\ t.status = "ACTIVE"
                  /\ t.user = reservations[rid].user
                  /\ t.amount = reservations[rid].price_amount
                  /\ t.original_reservation = rid]_vars

\* a paid, directly settled TICKET-plan reservation was cancelled and its
\* ticket issued
C1_Witness ==
    \E rid \in DOMAIN reservations, tid \in DOMAIN tickets :
        /\ reservations[rid].status = "CANCELLED"
        /\ Paid(reservations[rid])
        /\ DirectPayment(reservations[rid])
        /\ reservations[rid].price_plan = "TICKET"
        /\ tickets[tid].source = "CANCELLATION"
        /\ tickets[tid].original_reservation = rid
        /\ tickets[tid].amount = reservations[rid].price_amount

\* C2 as stated: a successful cancel issues a replacement ticket if and only if
\* the reservation was paid and was settled neither with a ticket nor with a
\* subscription.
C2_TicketIffPaidDirect ==
    [][\A u \in Users, rid \in DOMAIN reservations :
        CancelSucceeds(u, rid)
        => IF Paid(reservations[rid]) /\ DirectPayment(reservations[rid])
           THEN OneTicketIssued
           ELSE tickets' = tickets]_vars

\* C2 amended: a successful cancel issues a replacement ticket if and only if
\* the reservation was paid, has the TICKET price plan and was settled neither
\* with a ticket nor with a subscription; cancelling a ticket_-settled
\* reservation never issues a ticket.
C2_TicketIffPaidDirectTicketPlan ==
    [][\A u \in Users, rid \in DOMAIN reservations :
        CancelSucceeds(u, rid)
        => /\ IF /\ Paid(reservations[rid])
                 /\ DirectPayment(reservations[rid])
                 /\ reservations[rid].price_plan = "TICKET"
              THEN OneTicketIssued
              ELSE tickets' = tickets
           /\ SettledWithTicket(reservations[rid]) => tickets' = tickets]_vars

\* a paid, directly settled reservation of another plan was cancelled and no
\* ticket names it
C2_Witness ==
    \E rid \in DOMAIN reservations :
        /\ reservations[rid].status = "CANCELLED"
        /\ Paid(reservations[rid])
        /\ DirectPayment(reservations[rid])
        /\ reservations[rid].price_plan # "TICKET"
        /\ \A tid \in DOMAIN tickets : tickets[tid].original_reservation # rid

\* the subscriptions whose current_reservation is rid
Holders(rid) ==
    {sid \in DOMAIN subscriptions : subscriptions[sid].current_reservation = rid}

\* reservation rid was booked with a subscription, belongs to u, and its
\* stored deadline is still ahead
BookedWithSubscriptionBeforeDeadline(u, rid) ==
    /\ rid \in DOMAIN reservations
    /\ reservations[rid].user = u
    /\ reservations[rid].via = "subscription"
    /\ now < reservations[rid].cancellation_deadline

\* C3: cancelling, before the deadline, a reservation that was booked with a
\* subscription is accepted, sets the reservation to CANCELLED, issues no
\* ticket and leaves the subscription that held it with no current
\* reservation, so that a still-active subscription can make a reservation.
C3_SubscriptionSlotReleased ==
    /\ [](\A u \in Users, rid \in DOMAIN reservations :
            BookedWithSubscriptionBeforeDeadline(u, rid)
            => /\ CancelReservationCode(u, rid) = 200
               /\ SettledWithSubscription(reservations[rid]))
    /\ [][\A u \in Users, rid \in DOMAIN reservations :
            (BookedWithSubscriptionBeforeDeadline(u, rid) /\ CancelReservation(u, rid))
            => /\ reservations'[rid].status = "CANCELLED"
               /\ tickets' = tickets
               /\ \A sid \in Holders(rid) :
                    /\ subscriptions'[sid].current_reservation = NoId
                    /\ subscription_is_active(subscriptions'[sid])
                       => (can_make_reservation(subscriptions[sid]))']_vars

\* a reservation booked with a subscription is CANCELLED and the subscription
\* it names, still active, holds no reservation
C3_Witness ==
    \E rid \in DOMAIN reservations, sid \in DOMAIN subscriptions :
        /\ reservations[rid].via = "subscription"
        /\ reservations[rid].stripe_payment_intent_id = Ref("subscription_", sid)
        /\ reservations[rid].status = "CANCELLED"
        /\ subscriptions[sid].current_reservation = NoId
        /\ subscriptions[sid].reservations_used = 0
        /\ can_make_reservation(subscriptions[sid])

\* C4 as stated: a cancel request of the owner that arrives when
\* now >= R.cancellation_deadline (the stored deadline) is answered with the
\* deadline-passed error and leaves reservations, tickets and subscriptions
\* unchanged.
C4_NoCancelAfterStoredDeadline ==
    [][\A u \in Users, rid \in DOMAIN reservations :
        (/\ rid \in DOMAIN reservations
         /\ reservations[rid].user = u
         /\ now >= reservations[rid].cancellation_deadline
         /\ CancelReservation(u, rid))
        => /\ CancelReservationCode(u, rid) = 400
           /\ UNCHANGED <<reservations, tickets, subscriptions>>]_vars

\* C9: using a valid ticket sets it to USED with used_at and
\* used_for_reservation stamped; a USED ticket stays USED, and every later
\* request to use it is refused and leaves tickets and reservations unchanged.
C9_TicketSingleUse ==
    /\ [](\A u \in Users, tid \in DOMAIN tickets :
            tickets[tid].status = "USED" => UseTicketCode(u, tid) \in {400, 404})
    /\ [][\A u \in Users, tid \in DOMAIN tickets, d \in Payloads :
            UseTicket(u, tid, d)
            => IF UseTicketCode(u, tid) = 200
               THEN /\ tickets'[tid].status = "USED"
                    /\ tickets'[tid].used_at = now
                    /\ tickets'[tid].used_for_reservation = Len(reservations')
                    /\ Len(reservations') = Len(reservations) + 1
                    /\ reservations'[Len(reservations')].stripe_payment_intent_id
                           = Ref("ticket_", tid)
               ELSE UNCHANGED <<tickets, reservations>>]_vars
    /\ [][\A tid \in DOMAIN tickets :
            tickets[tid].status = "USED" => tickets'[tid] = tickets[tid]]_vars

\* a ticket was used: it is USED and stamped with the reservation it paid for
C9_Witness ==
    \E tid \in DOMAIN tickets :
        /\ tickets[tid].status = "USED"
        /\ tickets[tid].used_at # NoTime
        /\ tickets[tid].used_for_reservation \in DOMAIN reservations
        /\ reservations[tickets[tid].used_for_reservation].stripe_payment_intent_id
               = Ref("ticket_", tid)

-----------------------------------------------------------------------------
(* Payment confirmation *)

MaxPaidReservations == 2
MaxPurchasedTickets == 2

InvitedReservation_Confirmed(user, data) ==
    NewReservation(user, data, "CONFIRMED", NoTime, NoRef, "invitation")

\* the reservation ProcessInvitedUserView.post leaves for an invited user:
\* PENDING, waiting for its payment
InvitedReservation(user, data) ==
    NewReservation(user, data, "PENDING", NoTime, NoRef, "invitation")

\* the payment intent ids a confirmation can carry: none, the local
\* development id, two intents Stripe knows and one it does not
PaymentIntentIds == {NoRef, LocalDevRef, Ref("pi_", 1), Ref("pi_", 2), Ref("pi_", 3)}
PaymentStatuses == {"succeeded", "failed"}

\* the reservation_data of a confirmation: absent, or the purchase of a ticket
PaymentPayloads == {NoData} \cup {d \in Payloads : d.price_plan = "ticket"}

\* the handler the confirmation q is addressed to, run on q
Confirm(q) ==
    IF q.endpoint = "users"
    THEN ConfirmPayment(q.user, q.payment_intent_id, q.status_payment, q.data)
    ELSE PaymentsConfirmPayment(q.user, q.payment_intent_id, q.status_payment)

\* a confirmation arrives at users.views.ConfirmPaymentView
DeliverConfirmation(user, payment_intent_id, status_payment, data) ==
    /\ ConfirmPayment(user, payment_intent_id, status_payment, data)
    /\ last' = Delivery("users", user, payment_intent_id, status_payment, data)

\* a confirmation arrives at payments.views.ConfirmPaymentView
DeliverPaymentsConfirmation(user, payment_intent_id, status_payment) ==
    /\ PaymentsConfirmPayment(user, payment_intent_id, status_payment)
    /\ last' = Delivery("payments", user, payment_intent_id, status_payment, NoData)

\* between zero and two invited reservations of the owner wait for payment
InitPayment ==
    /\ Quiet
    /\ probe = [f |-> "none", date |-> 0, out |-> NoTime]
    /\ \E n \in 0 .. 2 :
          reservations =
              [i \in 1 .. n |->
                  InvitedReservation("a",
                      [activity_name |-> "Bowling", reservation_date |-> 9 + i,
                       price_plan |-> "TICKET", price_amount |-> 25])]

NextPayment ==
    /\ UNCHANGED <<invitations, accounts>>
    /\ \/ Tick(Clock) /\ UNCHANGED last
       \/ \E u \in Owners, pid \in PaymentIntentIds, st \in PaymentStatuses,
             d \in PaymentPayloads : DeliverConfirmation(u, pid, st, d)
       \/ \E u \in Owners, pid \in PaymentIntentIds, st \in PaymentStatuses :
             DeliverPaymentsConfirmation(u, pid, st)
       \/ \E u \in Owners, rid \in 1 .. MaxPaidReservations :
             CancelReservation(u, rid) /\ last' = NoDelivery
    /\ Len(reservations') <= MaxPaidReservations
    /\ Len(tickets') <= MaxPurchasedTickets

SpecPayment == InitPayment /\ [][NextPayment]_vars

\* C6 as stated: delivering the same succeeded payment confirmation a second
\* time changes nothing: no second reservation, no second ticket, no other
\* reservation confirmed.
C6_RedeliveryChangesNothing ==
    [][(/\ last # NoDelivery
        /\ last.status_payment = "succeeded"
        /\ last' = last
        /\ Confirm(last))
       => UNCHANGED <<reservations, tickets>>]_vars

\* one confirmation produced two paid reservations that carry the same
\* payment intent
C6_Witness ==
    \E i, j \in DOMAIN reservations :
        /\ i < j
        /\ reservations[i].via = "payment"
        /\ reservations[j].via = "payment"
        /\ reservations[i].stripe_payment_intent_id = reservations[j].stripe_payment_intent_id
        /\ last.payment_intent_id = reservations[j].stripe_payment_intent_id

-----------------------------------------------------------------------------
(* Settlement by ticket, one database write at a time *)

MaxRequests == 2
MaxTicketReservations == 3
MaxOwnedTickets == 1

\* the instants around the expiry of a ticket bought at the first instant:
\* its last valid second and the second after
TicketClock ==
    {At(7, 12, 0, 0) + PurchasedTicketTTLDays * SecondsPerDay,
     At(7, 12, 0, 0) + PurchasedTicketTTLDays * SecondsPerDay + 1}

\* the sequence seq without its i-th element
Remove(seq, i) ==
    [j \in 1 .. Len(seq) - 1 |-> IF j < i THEN seq[j] ELSE seq[j + 1]]

\* UseTicketView.post up to its first write: the ticket row is read into the
\* request and validated; a refused request writes nothing
UseTicketLoad(user, ticket_id, data) ==
    /\ Len(requests) < MaxRequests
    /\ IF UseTicketCode(user, ticket_id) # 200
       THEN UNCHANGED requests
       ELSE requests' = Append(requests,
                [user |-> user, ticket_id |-> ticket_id, ticket |-> tickets[ticket_id],
                 data |-> data, reservation |-> NoId])
    /\ UNCHANGED <<now, reservations, tickets, subscriptions, groups, memberships, probe>>

\* UseTicketView.post, first write: Reservation.objects.create
UseTicketCreateReservation(i) ==
    /\ i \in DOMAIN requests
    /\ requests[i].reservation = NoId
    /\ reservations' = Append(reservations,
           NewReservation(requests[i].user, requests[i].data, "CONFIRMED", now,
                          Ref("ticket_", requests[i].ticket_id), "ticket"))
    /\ requests' = [requests EXCEPT ![i].reservation = Len(reservations) + 1]
    /\ UNCHANGED <<now, tickets, subscriptions, groups, memberships, probe>>

\* UseTicketView.post, second write: ticket.use_ticket(reservation) on the row
\* the request read; a ValueError is answered with 500 and writes nothing
UseTicketSave(i) ==
    /\ i \in DOMAIN requests
    /\ requests[i].reservation # NoId
    /\ IF ~ticket_is_valid(requests[i].ticket, now)
       THEN UNCHANGED tickets
       ELSE tickets' = [tickets EXCEPT ![requests[i].ticket_id] =
                           use_ticket(requests[i].ticket, requests[i].reservation, now)]
    /\ requests' = Remove(requests, i)
    /\ UNCHANGED <<now, reservations, subscriptions, groups, memberships, probe>>

\* the process that handles request i dies
Crash(i) ==
    /\ i \in DOMAIN requests
    /\ requests' = Remove(requests, i)
    /\ UNCHANGED <<now, reservations, tickets, subscriptions, groups, memberships, probe>>

InitTicket ==
    /\ Idle
    /\ probe = [f |-> "none", date |-> 0, out |-> NoTime]

NextTicket ==
    /\ UNCHANGED <<last, invitations, accounts>>
    /\ \/ Tick(TicketClock)
       \/ \E u \in Owners, d \in PaymentPayloads \ {NoData} :
             ConfirmPayment(u, LocalDevRef, "succeeded", d)
       \/ \E u \in Users, tid \in 1 .. MaxOwnedTickets, d \in Payloads :
             UseTicketLoad(u, tid, d)
       \/ \E i \in 1 .. MaxRequests : UseTicketCreateReservation(i)
       \/ \E i \in 1 .. MaxRequests : UseTicketSave(i)
       \/ \E i \in 1 .. MaxRequests : Crash(i)
       \/ \E u \in Owners : AdminExpireTickets(u)
    /\ Len(reservations') <= MaxTicketReservations
    /\ Len(tickets') <= MaxOwnedTickets

SpecTicket == InitTicket /\ [][NextTicket]_vars

\* the CONFIRMED reservations settled with ticket tid
SettledBy(tid) ==
    {rid \in DOMAIN reservations :
        /\ reservations[rid].status = "CONFIRMED"
        /\ reservations[rid].stripe_payment_intent_id = Ref("ticket_", tid)}

\* C7 as stated: whatever the interleaving of two use-ticket requests for the
\* same ACTIVE ticket, the ticket is written as USED only from ACTIVE, and at
\* most one CONFIRMED reservation carries the reference ticket_<id>.
C7_TicketUsedOnce ==
    /\ [](\A tid \in DOMAIN tickets : Cardinality(SettledBy(tid)) <= 1)
    /\ [][\A tid \in DOMAIN tickets :
            (tickets'[tid] # tickets[tid] /\ tickets'[tid].status = "USED")
            => tickets[tid].status = "ACTIVE"]_vars

\* two requests were in flight for one ticket and two CONFIRMED reservations
\* carry its reference
C7_Witness ==
    \E tid \in DOMAIN tickets :
        /\ Cardinality(SettledBy(tid)) = 2
        /\ tickets[tid].status = "USED"
        /\ requests = <<>>

\* C8 as stated: whenever no use-ticket request is in flight, a CONFIRMED
\* reservation with reference ticket_<id> exists if and only if ticket <id> is
\* USED and its used_for_reservation is that reservation.
C8_SettlementAllOrNothing ==
    requests = <<>>
    => \A tid \in DOMAIN tickets, rid \in DOMAIN reservations :
          (rid \in SettledBy(tid))
          <=> (tickets[tid].status = "USED" /\ tickets[tid].used_for_reservation = rid)

\* a request stopped between its two writes: a CONFIRMED reservation carries
\* the reference of a ticket that is not USED
C8_Witness ==
    /\ requests = <<>>
    /\ \E tid \in DOMAIN tickets :
          /\ SettledBy(tid) # {}
          /\ tickets[tid].status # "USED"

-----------------------------------------------------------------------------
(* Groups *)

\* the batch action cuts each (date, activity) list into slices of 6 and
\* creates each group with room for 6
GroupChunk == 6
BatchMaxParticipants == 6

\* meeting_point_name and meeting_point_address are blank unless given;
\* location_reveal_time is NULL in every group the program creates
NewGroup(event_date, activity_name, max_participants, meeting_point) ==
    [event_date |-> event_date, activity_name |-> activity_name,
     max_participants |-> max_participants, is_confirmed |-> TRUE,
     meeting_point_name |-> meeting_point.name,
     meeting_point_address |-> meeting_point.address,
     location_reveal_time |-> NoTime]

\* the blank defaults of EventGroup.meeting_point_name and
\* EventGroup.meeting_point_address
NoMeetingPoint == [name |-> "", address |-> ""]

\* the meeting point an administrator's request to CreateGroupView names;
\* a request without meeting_point_name is refused before any read
RequestedMeetingPoint == [name |-> "Le Comptoir", address |-> "3 rue des Halles"]

\* the mutant: no reservation is seen as assigned
has_group_Never(rid) == FALSE

\* Reservation.has_group
has_group(rid) ==
    \E m \in DOMAIN memberships : memberships[m].reservation = rid

\* EventGroup.participants_count
participants_count(g) ==
    Cardinality({m \in DOMAIN memberships :
                    /\ memberships[m].group = g
                    /\ reservations[memberships[m].reservation].status = "CONFIRMED"})

\* EventGroup.is_full
is_full(g) == participants_count(g) >= groups[g].max_participants

\* the rows of S in the order a Reservation queryset yields them:
\* Meta.ordering is the reservation date; equal dates are taken in id order
RECURSIVE Ordered(_)
Ordered(S) ==
    IF S = {} THEN <<>>
    ELSE LET first == CHOOSE i \in S : \A j \in S \ {i} :
                          \/ reservations[i].reservation_date < reservations[j].reservation_date
                          \/ /\ reservations[i].reservation_date = reservations[j].reservation_date
                             /\ i < j
         IN  <<first>> \o Ordered(S \ {first})

\* the dict grouped_reservations of the batch action, in insertion order:
\* list holds the reservations still to file, acc the entries so far
RECURSIVE grouped_reservations(_, _)
grouped_reservations(list, acc) ==
    IF list = <<>> THEN acc
    ELSE LET rid == Head(list)
             key == <<reservations[rid].reservation_date, reservations[rid].activity_name>>
         IN  IF \E n \in DOMAIN acc : acc[n].key = key
             THEN grouped_reservations(Tail(list),
                      [n \in DOMAIN acc |->
                          IF acc[n].key = key
                          THEN [acc[n] EXCEPT !.reservations = Append(@, rid)]
                          ELSE acc[n]])
             ELSE grouped_reservations(Tail(list),
                      Append(acc, [key |-> key, reservations |-> <<rid>>]))

\* the mutant: the list is not cut
group_reservations_Uncut(list) ==
    IF list = <<>> THEN <<>> ELSE <<list>>

\* the mutant: only full slices are taken
RECURSIVE group_reservations_DropsRemainder(_)
group_reservations_DropsRemainder(list) ==
    IF Len(list) < GroupChunk THEN <<>>
    ELSE <<SubSeq(list, 1, GroupChunk)>>
             \o group_reservations_DropsRemainder(SubSeq(list, GroupChunk + 1, Len(list)))

\* the slices reservations[i:i+6] for i in range(0, len(reservations), 6)
RECURSIVE group_reservations(_)
group_reservations(list) ==
    IF list = <<>> THEN <<>>
    ELSE IF Len(list) <= GroupChunk THEN <<list>>
    ELSE <<SubSeq(list, 1, GroupChunk)>>
             \o group_reservations(SubSeq(list, GroupChunk + 1, Len(list)))

\* the groups the batch action creates, in creation order, each with the
\* reservations it takes
RECURSIVE PlannedGroups(_)
PlannedGroups(grouped) ==
    IF grouped = <<>> THEN <<>>
    ELSE LET slices == group_reservations(Head(grouped).reservations)
         IN  [c \in DOMAIN slices |-> [key |-> Head(grouped).key, members |-> slices[c]]]
                 \o PlannedGroups(Tail(grouped))

\* the membership rows of plan[n .. ], the first new group having id first_id
RECURSIVE PlannedMemberships(_, _, _)
PlannedMemberships(plan, n, first_id) ==
    IF n > Len(plan) THEN <<>>
    ELSE [m \in DOMAIN plan[n].members |->
             [group |-> first_id + n - 1, reservation |-> plan[n].members[m]]]
             \o PlannedMemberships(plan, n + 1, first_id)

\* ReservationAdmin.create_groups_for_selected
create_groups_for_selected(queryset) ==
    LET eligible == {rid \in queryset :
                        reservations[rid].status = "CONFIRMED" /\ ~has_group(rid)}
        plan == PlannedGroups(grouped_reservations(Ordered(eligible), <<>>))
    IN  /\ groups' = groups \o
               [n \in DOMAIN plan |->
                   NewGroup(plan[n].key[1], plan[n].key[2], BatchMaxParticipants,
                            NoMeetingPoint)]
        /\ memberships' = memberships \o PlannedMemberships(plan, 1, Len(groups) + 1)
        /\ UNCHANGED <<now, reservations, tickets, subscriptions, requests, probe>>

\* the reservations of list up to the first that is already in a group: the
\* rows GroupMembership.objects.create adds before the OneToOne constraint
\* raises IntegrityError
RECURSIVE MembersUntilConflict(_)
MembersUntilConflict(list) ==
    IF list = <<>> \/ has_group(Head(list)) THEN <<>>
    ELSE <<Head(list)>> \o MembersUntilConflict(Tail(list))

\* the status code of CreateGroupView.post for the id list it is given
CreateGroupCode(selected_reservation_ids) ==
    LET ids == {selected_reservation_ids[k] : k \in DOMAIN selected_reservation_ids}
        found == {rid \in DOMAIN reservations :
                     rid \in ids /\ reservations[rid].status = "CONFIRMED"}
    IN  IF selected_reservation_ids = <<>> \/ found = {} THEN 400
        ELSE IF \E i, j \in found :
                   reservations[i].reservation_date # reservations[j].reservation_date
        THEN 400
        ELSE IF \E rid \in found : has_group(rid) THEN 500
        ELSE 200

\* CreateGroupView.post
CreateGroup(selected_reservation_ids) ==
    LET ids == {selected_reservation_ids[k] : k \in DOMAIN selected_reservation_ids}
        found == Ordered({rid \in DOMAIN reservations :
                             rid \in ids /\ reservations[rid].status = "CONFIRMED"})
    IN  /\ IF CreateGroupCode(selected_reservation_ids) = 400
           THEN UNCHANGED <<groups, memberships>>
           ELSE LET first_reservation == reservations[found[1]]
                    members == MembersUntilConflict(found)
                IN  /\ groups' = Append(groups,
                           NewGroup(first_reservation.reservation_date,
                                    first_reservation.activity_name,
                                    Len(selected_reservation_ids),
                                    RequestedMeetingPoint))
                    /\ memberships' = memberships \o
                           [m \in DOMAIN members |->
                               [group |-> Len(groups) + 1, reservation |-> members[m]]]
        /\ UNCHANGED <<now, reservations, tickets, subscriptions, requests, probe>>


MaxBooked == 7
MaxGroups == 3

\* the reservations of the evening to be grouped: MaxBooked for the same
\* activity and date, one more for another activity on another date, all
\* made with ReservationView.post and not paid
InitGroups ==
    /\ Quiet
    /\ probe = [f |-> "none", date |-> 0, out |-> NoTime]
    /\ reservations =
          [i \in 1 .. MaxBooked + 1 |->
              NewReservation("a",
                  IF i <= MaxBooked
                  THEN [activity_name |-> "Bowling", reservation_date |-> 10,
                        price_plan |-> "TICKET", price_amount |-> 25]
                  ELSE [activity_name |-> "Karaoke", reservation_date |-> 9,
                        price_plan |-> "basic", price_amount |-> 10],
                  "CONFIRMED", NoTime, NoRef, "direct")]

\* the selections an administrator makes in the change list: the first
\* rows, or the last rows
Selections ==
    {1 .. b : b \in {1, MaxBooked - 1, MaxBooked, MaxBooked + 1}}
        \cup {MaxBooked .. MaxBooked + 1}

\* the reservations their owner may cancel
Cancellable == {1, 2, MaxBooked}

\* the id lists sent to CreateGroupView: one or two ids, repeated, unknown
\* (MaxBooked + 2) or of another date, and the whole evening
ManualSelections ==
    LET ids == {1, 2, MaxBooked + 1, MaxBooked + 2}
    IN  {<<i>> : i \in ids} \cup {<<i, j>> : i, j \in ids}
            \cup {[k \in 1 .. MaxBooked |-> k]}

NextGroups ==
    /\ UNCHANGED <<last, invitations, accounts>>
    /\ \/ \E q \in Selections : create_groups_for_selected(q)
       \/ \E ids \in ManualSelections : CreateGroup(ids)
       \/ \E u \in Owners, rid \in Cancellable : CancelReservation(u, rid)
       \/ \E q \in Selections : AdminConfirmReservations(q)
    /\ Len(groups') <= MaxGroups

SpecGroups == InitGroups /\ [][NextGroups]_vars

\* C10: in every reachable state, every group has at most max_participants
\* participants, the participants being the memberships whose reservation is
\* CONFIRMED.
C10_GroupWithinCapacity ==
    \A g \in DOMAIN groups : participants_count(g) <= groups[g].max_participants

\* the batch action has cut a list into a full group and a second group for
\* the same activity and date
C10_Witness ==
    \E g, h \in DOMAIN groups :
        /\ g # h
        /\ is_full(g)
        /\ participants_count(g) = GroupChunk
        /\ groups[h].event_date = groups[g].event_date
        /\ groups[h].activity_name = groups[g].activity_name
        /\ participants_count(h) >= 1

-----------------------------------------------------------------------------
(* Group assignment, one database write at a time *)

MaxRuns == 2
MaxRunReservations == 3
MaxRunGroups == 3

\* the mutant: the database does not enforce the one-to-one field
membership_unique_violation_Off(rid) == FALSE

\* GroupMembership.reservation is a OneToOneField: inserting a second row for
\* reservation rid raises IntegrityError
membership_unique_violation(rid) == has_group(rid)

\* what a run of the batch action has decided after reading the selection:
\* the groups to create and the reservations of each
BatchPlan(queryset) ==
    LET eligible == {rid \in queryset :
                        reservations[rid].status = "CONFIRMED" /\ ~has_group(rid)}
        plan == PlannedGroups(grouped_reservations(Ordered(eligible), <<>>))
    IN  [n \in DOMAIN plan |->
            [event_date |-> plan[n].key[1], activity_name |-> plan[n].key[2],
             max_participants |-> BatchMaxParticipants,
             meeting_point |-> NoMeetingPoint, members |-> plan[n].members]]

\* what CreateGroupView.post has decided after its validations
ManualPlan(selected_reservation_ids) ==
    LET ids == {selected_reservation_ids[k] : k \in DOMAIN selected_reservation_ids}
        found == Ordered({rid \in DOMAIN reservations :
                             rid \in ids /\ reservations[rid].status = "CONFIRMED"})
    IN  <<[event_date |-> reservations[found[1]].reservation_date,
           activity_name |-> reservations[found[1]].activity_name,
           max_participants |-> Len(selected_reservation_ids),
           meeting_point |-> RequestedMeetingPoint,
           members |-> found]>>

\* a run that has read its input and has written nothing yet
StartRun(plan) ==
    /\ Len(requests) < MaxRuns
    /\ IF plan = <<>>
       THEN UNCHANGED requests
       ELSE requests' = Append(requests, [plan |-> plan, g |-> 1, group |-> NoId, m |-> 1])
    /\ UNCHANGED <<now, reservations, tickets, subscriptions, groups, memberships, probe>>

\* create_groups_for_selected up to its first write
BatchRunRead(queryset) == StartRun(BatchPlan(queryset))

\* CreateGroupView.post up to its first write; a refused request writes nothing
ManualRunRead(selected_reservation_ids) ==
    IF CreateGroupCode(selected_reservation_ids) = 400
    THEN StartRun(<<>>)
    ELSE StartRun(ManualPlan(selected_reservation_ids))

\* EventGroup.objects.create for the group the run is at
RunCreateGroup(i) ==
    /\ i \in DOMAIN requests
    /\ requests[i].group = NoId
    /\ LET planned == requests[i].plan[requests[i].g]
       IN  groups' = Append(groups,
               NewGroup(planned.event_date, planned.activity_name,
                        planned.max_participants, planned.meeting_point))
    /\ requests' = [requests EXCEPT ![i].group = Len(groups) + 1]
    /\ UNCHANGED <<now, reservations, tickets, subscriptions, memberships, probe>>

\* GroupMembership.objects.create for the next reservation of the group the
\* run is at; IntegrityError ends the run, what it wrote stays
RunCreateMembership(i) ==
    /\ i \in DOMAIN requests
    /\ requests[i].group # NoId
    /\ LET run == requests[i]
           members == run.plan[run.g].members
           rid == members[run.m]
       IN  IF membership_unique_violation(rid)
           THEN /\ UNCHANGED memberships
                /\ requests' = Remove(requests, i)
           ELSE /\ memberships' = Append(memberships,
                       [group |-> run.group, reservation |-> rid])
                /\ requests' =
                       IF run.m < Len(members)
                       THEN [requests EXCEPT ![i].m = run.m + 1]
                       ELSE IF run.g < Len(run.plan)
                       THEN [requests EXCEPT ![i].g = run.g + 1,
                                             ![i].group = NoId, ![i].m = 1]
                       ELSE Remove(requests, i)
    /\ UNCHANGED <<now, reservations, tickets, subscriptions, groups, probe>>

\* the reservations to be grouped, made with ReservationView.post
InitRuns ==
    /\ Quiet
    /\ probe = [f |-> "none", date |-> 0, out |-> NoTime]
    /\ reservations =
          [i \in 1 .. MaxRunReservations |->
              NewReservation("a",
                  [activity_name |-> "Bowling", reservation_date |-> 10,
                   price_plan |-> "TICKET", price_amount |-> 25],
                  "CONFIRMED", NoTime, NoRef, "direct")]

\* the id lists of the manual requests
RunSelections ==
    {<<1>>, <<1, 2>>, <<2, 3>>, [k \in 1 .. MaxRunReservations |-> k]}

NextRuns ==
    /\ UNCHANGED <<last, invitations, accounts>>
    /\ \/ \E q \in SUBSET (1 .. MaxRunReservations) : q # {} /\ BatchRunRead(q)
       \/ \E ids \in RunSelections : ManualRunRead(ids)
       \/ \E i \in 1 .. MaxRuns : RunCreateGroup(i)
       \/ \E i \in 1 .. MaxRuns : RunCreateMembership(i)
    /\ Len(groups') <= MaxRunGroups

SpecRuns == InitRuns /\ [][NextRuns]_vars

\* the membership rows of reservation rid
MembershipsOf(rid) ==
    {m \in DOMAIN memberships : memberships[m].reservation = rid}

\* C11: in every reachable state, also while two assignment runs over
\* overlapping reservations are in flight, each reservation has at most one
\* GroupMembership.
C11_OneMembershipPerReservation ==
    \A rid \in DOMAIN reservations : Cardinality(MembershipsOf(rid)) <= 1

\* two runs are in flight, both have planned reservation rid, and rid has
\* its membership
C11_Witness ==
    /\ Len(requests) = 2
    /\ \E rid \in DOMAIN reservations :
          /\ has_group(rid)
          /\ \A i \in DOMAIN requests :
                \E g \in DOMAIN requests[i].plan :
                    \E m \in DOMAIN requests[i].plan[g].members :
                        requests[i].plan[g].members[m] = rid

-----------------------------------------------------------------------------
(* Batch assignment, seen from outside *)

\* the reservations of queryset the batch action has to place
Eligible(queryset) ==
    {rid \in queryset \cap DOMAIN reservations :
        reservations[rid].status = "CONFIRMED" /\ ~has_group(rid)}

\* those of them for date and activity key, in input order
EligibleFor(queryset, key) ==
    Ordered({rid \in Eligible(queryset) :
                /\ reservations[rid].reservation_date = key[1]
                /\ reservations[rid].activity_name = key[2]})

\* the groups the step has created for key, and the j-th of them
CreatedFor(key) ==
    {g \in DOMAIN groups' \ DOMAIN groups :
        groups'[g].event_date = key[1] /\ groups'[g].activity_name = key[2]}
NthCreatedFor(key, j) ==
    CHOOSE g \in CreatedFor(key) :
        Cardinality({h \in CreatedFor(key) : h < g}) = j - 1

\* the reservations of group g after the step, in the order they joined
JoinedAfter(g) ==
    LET rows == SelectSeq(memberships', LAMBDA row : row.group = g)
    IN  [k \in DOMAIN rows |-> rows[k].reservation]

\* C12: a batch assignment creates, for each (date, activity) with n eligible
\* reservations, exactly ceil(n/6) confirmed groups; the j-th holds the j-th
\* run of 6 consecutive reservations of the input order (the last one the
\* rest), so every eligible reservation is in exactly one new group; the
\* memberships that existed stay as they were.
C12_BatchChunks ==
    [][\A q \in Selections :
        create_groups_for_selected(q)
        => LET keys == {<<reservations[rid].reservation_date,
                          reservations[rid].activity_name>> : rid \in Eligible(q)}
           IN  /\ SubSeq(memberships', 1, Len(memberships)) = memberships
               /\ SubSeq(groups', 1, Len(groups)) = groups
               /\ \A g \in DOMAIN groups' \ DOMAIN groups :
                     /\ groups'[g].is_confirmed
                     /\ <<groups'[g].event_date, groups'[g].activity_name>> \in keys
               /\ \A key \in keys :
                     LET input == EligibleFor(q, key)
                         n == Len(input)
                     IN  /\ Cardinality(CreatedFor(key)) = (n + GroupChunk - 1) \div GroupChunk
                         /\ \A j \in 1 .. Cardinality(CreatedFor(key)) :
                               JoinedAfter(NthCreatedFor(key, j)) =
                                   SubSeq(input, GroupChunk * (j - 1) + 1,
                                          IF GroupChunk * j < n THEN GroupChunk * j ELSE n)
               /\ Len(memberships') = Len(memberships) + Cardinality(Eligible(q))]_vars

\* one batch run has placed seven reservations of one activity in a group of
\* six and a group of one, and the reservation of another activity in a
\* group of its own
C12_Witness ==
    /\ Len(groups) = 3
    /\ \A g \in DOMAIN groups : groups[g].max_participants = BatchMaxParticipants
    /\ \E g, h, k \in DOMAIN groups :
          /\ groups[g].activity_name = groups[h].activity_name
          /\ groups[k].activity_name # groups[g].activity_name
          /\ Cardinality({m \in DOMAIN memberships : memberships[m].group = g}) = GroupChunk
          /\ Cardinality({m \in DOMAIN memberships : memberships[m].group = h}) = 1
          /\ Cardinality({m \in DOMAIN memberships : memberships[m].group = k}) = 1
          /\ g < h

-----------------------------------------------------------------------------
(* Manual group creation *)

MaxManualGroups == 2

\* four reservations made with ReservationView.post: two for the same
\* activity and date, one for another activity on that date, one for another
\* date
ManualBookings ==
    <<[activity_name |-> "Bowling", reservation_date |-> 10,
       price_plan |-> "TICKET", price_amount |-> 25],
      [activity_name |-> "Karaoke", reservation_date |-> 10,
       price_plan |-> "basic", price_amount |-> 10],
      [activity_name |-> "Bowling", reservation_date |-> 11,
       price_plan |-> "ticket", price_amount |-> 15],
      [activity_name |-> "Bowling", reservation_date |-> 10,
       price_plan |-> "TICKET", price_amount |-> 25]>>

InitManual ==
    /\ Quiet
    /\ probe = [f |-> "none", date |-> 0, out |-> NoTime]
    /\ reservations =
          [i \in DOMAIN ManualBookings |->
              NewReservation("a", ManualBookings[i], "CONFIRMED", NoTime, NoRef, "direct")]

\* the id lists sent to CreateGroupView: none, one or two ids, among them
\* an id that names no reservation, and the three reservations of one date
ManualIdLists ==
    LET ids == 1 .. Len(ManualBookings) + 1
    IN  {<<>>} \cup {<<i>> : i \in ids} \cup {<<i, j>> : i, j \in ids}
            \cup {<<1, 2, 4>>}

NextManual ==
    /\ UNCHANGED <<last, invitations, accounts>>
    /\ \/ \E ids \in ManualIdLists : CreateGroup(ids)
       \/ \E q \in SUBSET DOMAIN ManualBookings : q # {} /\ create_groups_for_selected(q)
       \/ \E u \in Owners, rid \in DOMAIN ManualBookings : CancelReservation(u, rid)
       \/ \E q \in SUBSET DOMAIN ManualBookings : q # {} /\ AdminConfirmReservations(q)
    /\ Len(groups') <= MaxManualGroups

SpecManual == InitManual /\ [][NextManual]_vars

\* C13 as stated: in every reachable state, the reservation and the group of
\* every GroupMembership have the same date and the same activity.
C13_MembersShareOccurrence ==
    \A m \in DOMAIN memberships :
        LET r == reservations[memberships[m].reservation]
            g == groups[memberships[m].group]
        IN  r.reservation_date = g.event_date /\ r.activity_name = g.activity_name

\* a reservation is a member of a group of its date but of another activity
C13_Witness ==
    \E m \in DOMAIN memberships :
        LET r == reservations[memberships[m].reservation]
            g == groups[memberships[m].group]
        IN  r.reservation_date = g.event_date /\ r.activity_name # g.activity_name

\* the ids of the list that name no CONFIRMED reservation
NotConfirmedIds(ids) ==
    {ids[k] : k \in DOMAIN ids} \
        {rid \in DOMAIN reservations : reservations[rid].status = "CONFIRMED"}

\* C14 as stated: a manual group creation given an empty id list, ids of
\* more than one date, or an id that is missing or names a reservation that
\* is not CONFIRMED creates no group and no membership; an accepted one
\* creates exactly one group that holds every reservation of the list.
C14_ManualCreationValidates ==
    [][\A ids \in ManualIdLists :
        CreateGroup(ids)
        => IF \/ ids = <<>>
              \/ NotConfirmedIds(ids) # {}
              \/ \E i, j \in DOMAIN ids :
                    reservations[ids[i]].reservation_date
                        # reservations[ids[j]].reservation_date
           THEN UNCHANGED <<groups, memberships>>
           ELSE CreateGroupCode(ids) = 200
                => /\ Len(groups') = Len(groups) + 1
                   /\ \A k \in DOMAIN ids :
                         \E m \in DOMAIN memberships' :
                             /\ memberships'[m].reservation = ids[k]
                             /\ memberships'[m].group = Len(groups')]_vars

\* a group made for two ids holds one reservation, and no reservation has
\* been cancelled
C14_Witness ==
    /\ \A rid \in DOMAIN reservations : reservations[rid].status = "CONFIRMED"
    /\ \E g \in DOMAIN groups :
          /\ groups[g].max_participants = 2
          /\ Cardinality({m \in DOMAIN memberships : memberships[m].group = g}) = 1

-----------------------------------------------------------------------------
(* Friend invitations: the two instants create_invitation computes *)

\* FriendInvitation.create_invitation: the instant after which it raises
\* ValueError, 23:59:59 on the day before the reservation
wednesday_deadline(reservation_date) == At(reservation_date - 1, 23, 59, 59)

\* FriendInvitation.create_invitation: that instant plus one minute
expires_at(reservation_date) == At(reservation_date - 1, 23, 59, 59) + 60

InitInvitationDeadline == InitDeadline

ComputeInvitationExpiry ==
    /\ probe.f = "none"
    /\ probe' = [probe EXCEPT !.f = "create_invitation",
                              !.out = expires_at(probe.date)]
    /\ UNCHANGED <<now, reservations, tickets, subscriptions, groups, memberships,
                   requests, invitations, accounts, last>>

NextInvitationDeadline == ComputeInvitationExpiry

SpecInvitationDeadline ==
    InitInvitationDeadline /\ [][NextInvitationDeadline]_vars

\* the last Wednesday strictly before the date
WednesdayBefore(reservation_date) ==
    CHOOSE d \in reservation_date - 7 .. reservation_date - 1 : weekday(d) = 2

\* C15 as stated: for a reservation on any date D, the invitation's
\* expires_at is 00:00 on the Wednesday preceding D.
C15_ExpiresWednesdayMidnight ==
    probe.f = "create_invitation"
        => probe.out = At(WednesdayBefore(probe.date), 0, 0, 0)

\* for Thursday 2024-06-13 the computed expiry is Thursday 2024-06-13 00:00:59
C15_Witness ==
    /\ probe.f = "create_invitation"
    /\ probe.date = 10
    /\ weekday(probe.date) = 3
    /\ probe.out = At(10, 0, 0, 59)

-----------------------------------------------------------------------------
(* Friend invitations: rows and handlers *)

NoUser == ""

\* str.lower() on the addresses used here
lower(email) == IF email = "F" THEN "f" ELSE email

\* FriendInvitation.objects.create(...).  A row that is deleted keeps its
\* place with deleted = TRUE, so that ids and tokens are never reused.
NewInvitation(inviter, invited_email, reservation, message, created, expires) ==
    [inviter |-> inviter,
     invited_email |-> invited_email,
     invited_user |-> NoUser,
     reservation |-> reservation,
     status |-> "PENDING",
     message |-> message,
     created_at |-> created,
     expires_at |-> expires,
     accepted_at |-> NoTime,
     used_at |-> NoTime,
     deleted |-> FALSE]

\* the rows of the table
LiveInvitations == {i \in DOMAIN invitations : ~invitations[i].deleted}

invitation_is_valid_AtExpiry(inv, t) ==
    inv.status = "PENDING" /\ t <= inv.expires_at

\* FriendInvitation.is_valid
invitation_is_valid(inv, t) ==
    inv.status = "PENDING" /\ t < inv.expires_at

\* FriendInvitation.can_be_used
can_be_used(inv) == inv.status = "ACCEPTED" /\ inv.invited_user # NoUser

\* FriendInvitation.mark_as_accepted
mark_as_accepted(inv, user, t) ==
    [inv EXCEPT !.status = "ACCEPTED", !.invited_user = user, !.accepted_at = t]

mark_as_used_KeepsStatus(inv, t) == [inv EXCEPT !.used_at = t]

\* FriendInvitation.mark_as_used
mark_as_used(inv, t) == [inv EXCEPT !.status = "USED", !.used_at = t]

\* FriendInvitation.objects.filter(inviter, invited_email, reservation)
\* .first(), the Meta ordering being -created_at: 0 when there is none
existing_invitation(user, invited_email, reservation_id) ==
    LET E == {i \in LiveInvitations :
                 /\ invitations[i].inviter = user
                 /\ invitations[i].invited_email = invited_email
                 /\ invitations[i].reservation = reservation_id}
    IN  IF E = {} THEN NoId ELSE CHOOSE i \in E : \A j \in E : j <= i

\* invitation.delete(): the row goes, and User.invitation_used, a foreign
\* key with on_delete=SET_NULL, is cleared where it named the row
DeletedInvitation(i) == [invitations EXCEPT ![i].deleted = TRUE]
InvitationUsedCleared(i) ==
    [e \in DOMAIN accounts |->
        IF accounts[e].invitation_used = i
        THEN [accounts[e] EXCEPT !.invitation_used = NoId]
        ELSE accounts[e]]

reservation_not_paid_StatusOnly(r) == r.status # "CONFIRMED"

\* CreateFriendInvitationView.post: reservation.status != 'CONFIRMED' or
\* not reservation.paid_at
reservation_not_paid(r) == r.status # "CONFIRMED" \/ r.paid_at = NoTime

\* the answer of CreateFriendInvitationView.post
CreateFriendInvitationCode(user, invited_email, reservation_id) ==
    IF invited_email = "" \/ reservation_id = NoId THEN 400
    ELSE IF invited_email \in DOMAIN accounts THEN 400
    ELSE IF ~(reservation_id \in DOMAIN reservations
              /\ reservations[reservation_id].user = user) THEN 404
    ELSE IF reservation_not_paid(reservations[reservation_id]) THEN 400
    ELSE LET existing == existing_invitation(user, invited_email, reservation_id) IN
         IF existing # NoId /\ invitation_is_valid(invitations[existing], now)
         THEN 200
         ELSE IF now > wednesday_deadline(reservations[reservation_id].reservation_date)
         THEN 400
         ELSE 200

\* CreateFriendInvitationView.post
CreateFriendInvitation(user, invited_email, reservation_id, message) ==
    /\ UNCHANGED <<now, reservations, tickets, subscriptions, groups, memberships,
                   requests, probe>>
    /\ IF \/ invited_email = "" \/ reservation_id = NoId
          \/ invited_email \in DOMAIN accounts
          \/ ~(reservation_id \in DOMAIN reservations
               /\ reservations[reservation_id].user = user)
          \/ reservation_not_paid(reservations[reservation_id])
       THEN UNCHANGED <<invitations, accounts>>
       ELSE LET existing == existing_invitation(user, invited_email, reservation_id)
                reservation_date == reservations[reservation_id].reservation_date
                created == NewInvitation(user, invited_email, reservation_id, message,
                                         now, expires_at(reservation_date))
            IN  IF existing # NoId
                THEN IF invitation_is_valid(invitations[existing], now)
                     THEN \* sent again, with the new message if there is one
                          /\ invitations' =
                                IF message # "" /\ invitations[existing].message # message
                                THEN [invitations EXCEPT ![existing].message = message]
                                ELSE invitations
                          /\ UNCHANGED accounts
                     ELSE \* deleted, then created again unless it is too late
                          /\ accounts' = InvitationUsedCleared(existing)
                          /\ invitations' =
                                IF now > wednesday_deadline(reservation_date)
                                THEN DeletedInvitation(existing)
                                ELSE Append(DeletedInvitation(existing), created)
                ELSE /\ invitations' =
                            IF now > wednesday_deadline(reservation_date)
                            THEN invitations
                            ELSE Append(invitations, created)
                     /\ UNCHANGED accounts

\* the answer of AcceptInvitationView.post
AcceptInvitationCode(invitation_token, email, password) ==
    IF invitation_token \notin LiveInvitations THEN 404
    ELSE IF ~invitation_is_valid(invitations[invitation_token], now) THEN 400
    ELSE IF email = "" \/ password = "" THEN 400
    ELSE IF lower(email) # lower(invitations[invitation_token].invited_email) THEN 400
    ELSE IF email \in DOMAIN accounts /\ accounts[email].password # password THEN 400
    ELSE 200

\* AcceptInvitationView.post
AcceptInvitation(invitation_token, email, password) ==
    /\ UNCHANGED <<now, reservations, tickets, subscriptions, groups, memberships,
                   requests, probe>>
    /\ IF AcceptInvitationCode(invitation_token, email, password) # 200
       THEN UNCHANGED <<invitations, accounts>>
       ELSE /\ accounts' =
                  IF email \notin DOMAIN accounts
                  THEN \* get_or_create creates the user
                       [e \in DOMAIN accounts \cup {email} |->
                           IF e = email
                           THEN Account(password, TRUE, invitation_token)
                           ELSE accounts[e]]
                  ELSE IF ~accounts[email].is_invited_user
                  THEN [accounts EXCEPT ![email].is_invited_user = TRUE,
                                        ![email].invitation_used = invitation_token]
                  ELSE accounts
            /\ invitations' =
                  [invitations EXCEPT ![invitation_token] =
                      mark_as_accepted(invitations[invitation_token], email, now)]

\* FriendInvitation.objects.get(invited_user=user, status='ACCEPTED')
AcceptedInvitations(user) ==
    {i \in LiveInvitations :
        invitations[i].invited_user = user /\ invitations[i].status = "ACCEPTED"}

\* the answer of ProcessInvitedUserView.post
ProcessInvitedUserCode(user) ==
    IF AcceptedInvitations(user) = {} THEN 404
    ELSE IF Cardinality(AcceptedInvitations(user)) > 1 THEN 500
    ELSE IF ~can_be_used(invitations[CHOOSE i \in AcceptedInvitations(user) : TRUE])
    THEN 400
    ELSE 200

\* ProcessInvitedUserView.post
ProcessInvitedUser(user) ==
    /\ UNCHANGED <<now, tickets, subscriptions, groups, memberships, requests,
                   probe, accounts>>
    /\ IF ProcessInvitedUserCode(user) # 200
       THEN UNCHANGED <<reservations, invitations>>
       ELSE LET i == CHOOSE j \in AcceptedInvitations(user) : TRUE IN
            /\ reservations' =
                  Append(reservations,
                         InvitedReservation(user, reservations[invitations[i].reservation]))
            /\ invitations' = [invitations EXCEPT ![i] = mark_as_used(invitations[i], now)]

-----------------------------------------------------------------------------
(* Friend invitations, one request at a time *)

MaxInvitations == 2
MaxInvitedReservations == 2

\* Tuesday 2024-06-11 23:59:00, Wednesday 2024-06-12 23:00:00 and 23:59:59,
\* Thursday 2024-06-13 00:00:59
InviteClock ==
    {At(8, 23, 59, 0), At(9, 23, 0, 0), At(9, 23, 59, 59), At(10, 0, 0, 59)}

\* the addresses a friend is invited at or answers with: two spellings of
\* one address that differ in case, and the address of a registered user
Emails == {"f", "F", "b"}
Passwords == {"secret", "wrong"}
Messages == {"", "hi"}

\* the reservations of a: one for Thursday 2024-06-13, paid when it was
\* made; one for Friday 2024-06-14 that is not paid; one for Wednesday
\* 2024-06-12, paid and since cancelled (its plan gives no ticket)
InvitationBookings ==
    <<[data |-> [activity_name |-> "Bowling", reservation_date |-> 10,
                 price_plan |-> "TICKET", price_amount |-> 25],
       payment_intent_id |-> Ref("pi_", 1), status |-> "CONFIRMED"],
      [data |-> [activity_name |-> "Bowling", reservation_date |-> 11,
                 price_plan |-> "ticket", price_amount |-> 15],
       payment_intent_id |-> NoRef, status |-> "CONFIRMED"],
      [data |-> [activity_name |-> "Karaoke", reservation_date |-> 9,
                 price_plan |-> "basic", price_amount |-> 10],
       payment_intent_id |-> Ref("pi_", 2), status |-> "CANCELLED"]>>

InitInvitations ==
    /\ Quiet
    /\ probe = [f |-> "none", date |-> 0, out |-> NoTime]
    /\ reservations =
          [i \in DOMAIN InvitationBookings |->
              LET b == InvitationBookings[i] IN
              NewReservation("a", b.data, b.status,
                             IF b.payment_intent_id = NoRef THEN NoTime ELSE now,
                             b.payment_intent_id, "direct")]

NextInvitations ==
    /\ UNCHANGED last
    /\ \/ Tick(InviteClock) /\ UNCHANGED <<invitations, accounts>>
       \/ \E u \in Users, e \in Emails, rid \in 1 .. Len(InvitationBookings) + 1,
             msg \in Messages :
             CreateFriendInvitation(u, e, rid, msg)
       \/ \E token \in 1 .. MaxInvitations, e \in Emails, p \in Passwords :
             AcceptInvitation(token, e, p)
       \/ \E e \in Emails : ProcessInvitedUser(e)
    /\ Len(invitations') <= MaxInvitations
    /\ Len(reservations') <= Len(InvitationBookings) + MaxInvitedReservations

SpecInvitations == InitInvitations /\ [][NextInvitations]_vars

\* the date of the reservation an invitation is for
OccurrenceOf(inv) == reservations[inv.reservation].reservation_date

\* C16 as stated: an accept attempted at or after 00:00 on the Wednesday
\* preceding the occurrence is rejected, so it changes neither the
\* invitation nor any user (for Thursday 2024-06-13: an accept on Wednesday
\* 2024-06-12 23:00).
C16_NoAcceptFromWednesday ==
    [][\A token \in 1 .. MaxInvitations, e \in Emails, p \in Passwords :
        /\ AcceptInvitation(token, e, p)
        /\ token \in LiveInvitations
        /\ now >= At(WednesdayBefore(OccurrenceOf(invitations[token])), 0, 0, 0)
        => UNCHANGED <<invitations, accounts>>]_vars

\* an invitation for the Thursday reservation, created before Tuesday
\* 23:59:59, is ACCEPTED since Wednesday 23:00 and bound to a user
C16_Witness ==
    \E i \in LiveInvitations :
        /\ OccurrenceOf(invitations[i]) = 10
        /\ invitations[i].created_at < At(8, 23, 59, 59)
        /\ invitations[i].status = "ACCEPTED"
        /\ invitations[i].accepted_at = At(9, 23, 0, 0)
        /\ invitations[i].invited_user \in DOMAIN accounts

\* C17: is_valid is true exactly when the status is PENDING and now is
\* strictly before expires_at; an accept on an invitation that is not valid
\* changes neither the invitation nor any user, and creates no user.
C17_InvalidInvitationNotAccepted ==
    /\ [](\A i \in LiveInvitations :
            invitation_is_valid(invitations[i], now)
                <=> (invitations[i].status = "PENDING"
                     /\ now < invitations[i].expires_at))
    /\ [][<<invitations, accounts>>' # <<invitations, accounts>>
          => \A token \in LiveInvitations :
                ~(invitations[token].status = "PENDING"
                  /\ now < invitations[token].expires_at)
                => \A e \in Emails, p \in Passwords :
                      ~AcceptInvitation(token, e, p)]_vars

\* a PENDING invitation at the very instant it expires, nobody bound to it
C17_Witness ==
    \E i \in LiveInvitations :
        /\ invitations[i].status = "PENDING"
        /\ now = invitations[i].expires_at
        /\ invitations[i].invited_user = NoUser
        /\ \A e \in DOMAIN accounts : accounts[e].invitation_used # i

\* C18 as stated: an invitation is created only when now is strictly before
\* 23:59 on the Tuesday preceding the occurrence, the instant stored as the
\* reservation's cancellation deadline.
C18_CreatedBeforeTuesdayDeadline ==
    [][Len(invitations') > Len(invitations)
        => now < reservations[invitations'[Len(invitations')].reservation]
                    .cancellation_deadline]_vars

\* an invitation for the Thursday reservation was created on Wednesday 23:00
C18_Witness ==
    \E i \in LiveInvitations :
        /\ OccurrenceOf(invitations[i]) = 10
        /\ invitations[i].created_at = At(9, 23, 0, 0)

\* the four conditions of the claim, on the state the request finds
InvitationAllowed(u, e, rid) ==
    /\ rid \in DOMAIN reservations
    /\ reservations[rid].user = u
    /\ reservations[rid].status = "CONFIRMED"
    /\ reservations[rid].paid_at # NoTime
    /\ e \notin DOMAIN accounts

\* C19: a request creates an invitation only when the reservation it names
\* belongs to the inviter, is CONFIRMED and paid, and the invited address is
\* not that of a registered user; failing any of these, the request is
\* rejected and the invitations are unchanged.
C19_InvitationPreconditions ==
    /\ [](\A u \in Users, e \in Emails, rid \in 1 .. Len(InvitationBookings) + 1 :
            ~InvitationAllowed(u, e, rid) => CreateFriendInvitationCode(u, e, rid) # 200)
    /\ [][invitations' # invitations
          => \A u \in Users, e \in Emails, rid \in 1 .. Len(InvitationBookings) + 1 :
                ~InvitationAllowed(u, e, rid)
                => \A msg \in Messages : ~CreateFriendInvitation(u, e, rid, msg)]_vars
    /\ [][Len(invitations') > Len(invitations)
          => LET inv == invitations'[Len(invitations')]
             IN  InvitationAllowed(inv.inviter, inv.invited_email, inv.reservation)]_vars

\* invitations exist, each for a CONFIRMED and paid reservation of its
\* inviter, while a has a reservation that is not paid and a cancelled one
C19_Witness ==
    /\ LiveInvitations # {}
    /\ \A i \in LiveInvitations :
          /\ reservations[invitations[i].reservation].user = invitations[i].inviter
          /\ ~reservation_not_paid(reservations[invitations[i].reservation])
    /\ \E rid \in DOMAIN reservations :
          reservations[rid].user = "a" /\ reservations[rid].paid_at = NoTime
    /\ \E rid \in DOMAIN reservations :
          reservations[rid].user = "a" /\ reservations[rid].status = "CANCELLED"

-----------------------------------------------------------------------------
(* Invitation creation, one database operation at a time *)

MaxInviteRuns == 2
MaxRunInvitations == 2

\* the instant at which the invitations for Thursday 2024-06-13 expire
InviteRunClock == {At(10, 0, 0, 59)}

\* the addresses invited in this part
InviteRunEmails == {"f", "b"}

invitation_unique_violation_Off(user, invited_email, reservation_id) == FALSE

\* unique_together = ['inviter', 'invited_email', 'reservation']: the insert
\* of a second row for the triple raises IntegrityError
invitation_unique_violation(user, invited_email, reservation_id) ==
    existing_invitation(user, invited_email, reservation_id) # NoId

\* what a request holds when it has found no invitation
NoInvitation == NewInvitation(NoUser, "", NoId, "", NoTime, NoTime)

\* the request is answered: it leaves the server
Answered(i) == Remove(requests, i)

\* CreateFriendInvitationView.post up to the lookup of the existing
\* invitation: the reads of the request
InviteRead(user, invited_email, reservation_id, message) ==
    /\ Len(requests) < MaxInviteRuns
    /\ IF \/ invited_email = "" \/ reservation_id = NoId
          \/ invited_email \in DOMAIN accounts
          \/ ~(reservation_id \in DOMAIN reservations
               /\ reservations[reservation_id].user = user)
          \/ reservation_not_paid(reservations[reservation_id])
       THEN UNCHANGED requests
       ELSE LET existing == existing_invitation(user, invited_email, reservation_id) IN
            requests' = Append(requests,
                [user |-> user, invited_email |-> invited_email,
                 reservation |-> reservation_id, message |-> message,
                 existing |-> existing,
                 row |-> IF existing = NoId THEN NoInvitation
                         ELSE invitations[existing],
                 pc |-> "loaded"])
    /\ UNCHANGED <<now, reservations, tickets, subscriptions, groups, memberships,
                   invitations, accounts, probe>>

\* the invitation that was found is still valid: it is sent again, and
\* saved when the request brings another message.  save() writes every
\* column of the row as the request holds it; when the row is gone, save()
\* inserts it again under its id, which the unique constraint may refuse.
InviteResend(i) ==
    /\ i \in DOMAIN requests
    /\ requests[i].pc = "loaded"
    /\ requests[i].existing # NoId
    /\ invitation_is_valid(requests[i].row, now)
    /\ LET q == requests[i]
           saved == [q.row EXCEPT !.message = q.message]
       IN  invitations' =
              IF q.message = "" \/ q.row.message = q.message
              THEN invitations
              ELSE IF invitations[q.existing].deleted
                      /\ invitation_unique_violation(q.user, q.invited_email,
                                                     q.reservation)
              THEN invitations
              ELSE [invitations EXCEPT ![q.existing] = saved]
    /\ requests' = Answered(i)
    /\ UNCHANGED <<now, reservations, tickets, subscriptions, groups, memberships,
                   accounts, probe>>

\* the invitation that was found is no longer valid: it is deleted
InviteDelete(i) ==
    /\ i \in DOMAIN requests
    /\ requests[i].pc = "loaded"
    /\ requests[i].existing # NoId
    /\ ~invitation_is_valid(requests[i].row, now)
    /\ invitations' = DeletedInvitation(requests[i].existing)
    /\ accounts' = InvitationUsedCleared(requests[i].existing)
    /\ requests' = [requests EXCEPT ![i].pc = "create"]
    /\ UNCHANGED <<now, reservations, tickets, subscriptions, groups, memberships,
                   probe>>

\* FriendInvitation.create_invitation: ValueError when it is too late,
\* IntegrityError when the triple has a row, else the row is inserted
InviteCreate(i) ==
    /\ i \in DOMAIN requests
    /\ \/ requests[i].pc = "loaded" /\ requests[i].existing = NoId
       \/ requests[i].pc = "create"
    /\ LET q == requests[i]
           reservation_date == reservations[q.reservation].reservation_date
       IN  invitations' =
              IF now > wednesday_deadline(reservation_date)
              THEN invitations
              ELSE IF invitation_unique_violation(q.user, q.invited_email, q.reservation)
              THEN invitations
              ELSE Append(invitations,
                          NewInvitation(q.user, q.invited_email, q.reservation,
                                        q.message, now, expires_at(reservation_date)))
    /\ requests' = Answered(i)
    /\ UNCHANGED <<now, reservations, tickets, subscriptions, groups, memberships,
                   accounts, probe>>

InitInviteRuns == InitInvitations

NextInviteRuns ==
    /\ UNCHANGED last
    /\ \/ Tick(InviteRunClock) /\ UNCHANGED <<invitations, accounts>>
       \/ \E u \in Users, e \in InviteRunEmails, rid \in 1 .. 2, msg \in Messages :
             InviteRead(u, e, rid, msg)
       \/ \E i \in 1 .. MaxInviteRuns : InviteResend(i)
       \/ \E i \in 1 .. MaxInviteRuns : InviteDelete(i)
       \/ \E i \in 1 .. MaxInviteRuns : InviteCreate(i)
       \/ \E token \in 1 .. MaxRunInvitations, e \in Emails, p \in Passwords :
             AcceptInvitation(token, e, p) /\ UNCHANGED requests
    /\ Len(invitations') <= MaxRunInvitations

SpecInviteRuns == InitInviteRuns /\ [][NextInviteRuns]_vars

\* C20: whatever the interleaving of the requests, no two invitations have
\* the same inviter, invited address and reservation.
C20_OneInvitationPerTriple ==
    \A i, j \in LiveInvitations :
        /\ invitations[i].inviter = invitations[j].inviter
        /\ invitations[i].invited_email = invitations[j].invited_email
        /\ invitations[i].reservation = invitations[j].reservation
        => i = j

\* a request that found no invitation for its triple is still to insert
\* its row, and another request has inserted one for the triple meanwhile
C20_Witness ==
    \E i \in DOMAIN requests :
        /\ requests[i].pc = "loaded"
        /\ requests[i].existing = NoId
        /\ existing_invitation(requests[i].user, requests[i].invited_email,
                               requests[i].reservation) # NoId

-----------------------------------------------------------------------------
(* Friend invitations: resending, materializing, life cycle *)

\* the invitation is PENDING and not expired, or ACCEPTED
LiveFor(inv, t) ==
    \/ inv.status = "PENDING" /\ t < inv.expires_at
    \/ inv.status = "ACCEPTED"

\* C21 as stated: inviting again for a triple whose invitation is PENDING
\* and not expired, or ACCEPTED, keeps that invitation: no row is created or
\* deleted, and nothing but its message changes.
C21_ResendKeepsInvitation ==
    [][invitations' # invitations
        => \A i \in LiveInvitations :
              /\ LiveFor(invitations[i], now)
              /\ \E msg \in Messages :
                    CreateFriendInvitation(invitations[i].inviter,
                                           invitations[i].invited_email,
                                           invitations[i].reservation, msg)
              => /\ Len(invitations') = Len(invitations)
                 /\ invitations'[i] =
                       [invitations[i] EXCEPT !.message = invitations'[i].message]]_vars

\* an ACCEPTED invitation has been deleted and a PENDING one stands for its
\* triple
C21_Witness ==
    \E i, j \in DOMAIN invitations :
        /\ invitations[i].deleted /\ invitations[i].status = "ACCEPTED"
        /\ ~invitations[j].deleted /\ invitations[j].status = "PENDING"
        /\ invitations[i].inviter = invitations[j].inviter
        /\ invitations[i].invited_email = invitations[j].invited_email
        /\ invitations[i].reservation = invitations[j].reservation

AllMaterialized(e) ==
    /\ \E i \in LiveInvitations :
          invitations[i].invited_user = e /\ invitations[i].used_at # NoTime
    /\ \A i \in LiveInvitations :
          invitations[i].invited_user = e => invitations[i].used_at # NoTime

C24_InvitationLifeCycle ==
    [][\A i \in LiveInvitations :
        LET before == invitations[i]
            after == invitations'[i]
        IN  /\ before.status \in {"ACCEPTED", "USED"} => ~after.deleted
            /\ \/ after.status = before.status
               \/ before.status = "PENDING" /\ after.status = "ACCEPTED"
               \/ before.status = "ACCEPTED" /\ after.status = "USED"
            /\ before.invited_user # NoUser
                  => after.invited_user = before.invited_user]_vars

\* a USED invitation has been deleted and a PENDING one stands for its
\* triple, while the reservation made from the USED one exists
C24_Witness ==
    \E i, j \in DOMAIN invitations :
        /\ invitations[i].deleted /\ invitations[i].status = "USED"
        /\ ~invitations[j].deleted /\ invitations[j].status = "PENDING"
        /\ invitations[i].inviter = invitations[j].inviter
        /\ invitations[i].invited_email = invitations[j].invited_email
        /\ invitations[i].reservation = invitations[j].reservation
        /\ \E rid \in DOMAIN reservations :
              /\ reservations[rid].via = "invitation"
              /\ reservations[rid].user = invitations[i].invited_user

-----------------------------------------------------------------------------
(* Booking with a subscription, one database operation at a time *)

MaxBookingRuns == 2
MaxBookedWithSubscription == 3

\* CreateReservationWithSubscriptionView.post up to the two tests: the
\* active subscription is read, and with it the status of its current
\* reservation
BookingRead(user, data) ==
    /\ Len(requests) < MaxBookingRuns
    /\ LET sid == get_active_subscription(user) IN
       IF sid = NoId
       THEN UNCHANGED requests
       ELSE IF ~can_make_reservation(subscriptions[sid])
       THEN UNCHANGED requests
       ELSE requests' = Append(requests,
                [user |-> user, data |-> data, sid |-> sid,
                 active_subscription |-> subscriptions[sid],
                 reservation |-> NoId, pc |-> "checked"])
    /\ UNCHANGED <<now, reservations, tickets, subscriptions, groups, memberships,
                   invitations, accounts, probe>>

\* Reservation.objects.create(...), then the deadline of the view and
\* reservation.save()
BookingCreateReservation(i) ==
    /\ i \in DOMAIN requests
    /\ requests[i].pc = "checked"
    /\ LET q == requests[i]
           created ==
               NewReservation(q.user,
                   [q.data EXCEPT !.price_plan = "SUBSCRIPTION", !.price_amount = 0],
                   "CONFIRMED", now, Ref("subscription_", q.sid), "subscription")
           saved == [created EXCEPT
                        !.cancellation_deadline =
                            At(q.data.reservation_date - 2, 23, 59, 0)]
       IN  /\ reservations' = Append(reservations, saved)
           /\ requests' = [requests EXCEPT ![i].reservation = Len(reservations) + 1,
                                           ![i].pc = "created"]
    /\ UNCHANGED <<now, tickets, subscriptions, groups, memberships, invitations,
                   accounts, probe>>

\* active_subscription.use_for_reservation(reservation): the row is saved
\* as the request read it, with the reservation attached and the counter of
\* that copy plus one
BookingUse(i) ==
    /\ i \in DOMAIN requests
    /\ requests[i].pc = "created"
    /\ subscriptions' =
          [subscriptions EXCEPT ![requests[i].sid] =
              use_for_reservation(requests[i].active_subscription,
                                  requests[i].reservation)]
    /\ requests' = Remove(requests, i)
    /\ UNCHANGED <<now, reservations, tickets, groups, memberships, invitations,
                   accounts, probe>>

InitBookingRuns == Idle /\ probe = [f |-> "none", date |-> 0, out |-> NoTime]

NextBookingRuns ==
    /\ UNCHANGED last
    /\ \/ \E u \in Owners, st \in SubscriptionTypes :
             CreateSubscription(u, st) /\ UNCHANGED <<invitations, accounts>>
       \/ \E u \in Owners, data \in Payloads : BookingRead(u, data)
       \/ \E i \in 1 .. MaxBookingRuns : BookingCreateReservation(i)
       \/ \E i \in 1 .. MaxBookingRuns : BookingUse(i)
       \/ \E u \in Owners, rid \in 1 .. MaxBookedWithSubscription :
             CancelReservation(u, rid) /\ UNCHANGED <<invitations, accounts>>
    /\ Len(reservations') <= MaxBookedWithSubscription

SpecBookingRuns == InitBookingRuns /\ [][NextBookingRuns]_vars

\* the reservations a subscription pays for that are neither CANCELLED nor
\* COMPLETED
LiveReservationsOf(sid) ==
    {rid \in DOMAIN reservations :
        /\ reservations[rid].stripe_payment_intent_id = Ref("subscription_", sid)
        /\ reservations[rid].status \notin {"CANCELLED", "COMPLETED"}}

\* C25 as stated: whenever no booking request is under way, each
\* subscription pays for at most one live reservation, and that one is its
\* current_reservation.
C25_OneLiveReservationPerSubscription ==
    requests = <<>>
        => \A sid \in DOMAIN subscriptions :
              /\ Cardinality(LiveReservationsOf(sid)) <= 1
              /\ \A rid \in LiveReservationsOf(sid) :
                    subscriptions[sid].current_reservation = rid

\* no request is under way and a subscription pays for two CONFIRMED
\* reservations
C25_Witness ==
    /\ requests = <<>>
    /\ \E sid \in DOMAIN subscriptions : Cardinality(LiveReservationsOf(sid)) = 2

-----------------------------------------------------------------------------
(* Subscriptions *)

\* the condition of the claim, on the stored rows: the subscription is
\* active and its slot is free
SlotFree(s) ==
    /\ s.status = "ACTIVE"
    /\ now <= s.end_date
    /\ \/ s.current_reservation = NoId
       \/ reservations[s.current_reservation].status \in {"CANCELLED", "COMPLETED"}

MaxUserSubscriptions == 3

\* one day after the first instant, then the end of a MONTHLY subscription
\* taken at the first instant, to the second, and the day after
SubscriptionClock == {At(8, 12, 0, 0), At(37, 12, 0, 0), At(38, 12, 0, 0)}

SubscriptionRequests == {"MONTHLY", "QUARTERLY", "WEEKLY"}

InitSubscriptions == Idle /\ probe = [f |-> "none", date |-> 0, out |-> NoTime]

NextSubscriptions ==
    /\ UNCHANGED <<last, invitations, accounts>>
    /\ \/ Tick(SubscriptionClock)
       \/ \E u \in Users, st \in SubscriptionRequests : CreateSubscription(u, st)
       \/ \E u \in Users : CancelSubscription(u)
    /\ Len(subscriptions') <= MaxUserSubscriptions

SpecSubscriptions == InitSubscriptions /\ [][NextSubscriptions]_vars

\* the subscriptions of the user with status ACTIVE and end_date in the
\* future
ActiveSubscriptionsOf(u) ==
    {sid \in DOMAIN subscriptions :
        /\ subscriptions[sid].user = u
        /\ subscriptions[sid].status = "ACTIVE"
        /\ subscriptions[sid].end_date > now}

\* C27: a user never has two subscriptions that are ACTIVE with end_date in
\* the future, and no subscription is created for a user who has one.
C27_OneActiveSubscription ==
    /\ [](\A u \in Users : Cardinality(ActiveSubscriptionsOf(u)) <= 1)
    /\ [][Len(subscriptions') > Len(subscriptions)
          => ActiveSubscriptionsOf(subscriptions'[Len(subscriptions')].user) = {}]_vars

\* a user has cancelled a subscription and holds a later one that is
\* ACTIVE, while the other user holds an ACTIVE one too
C27_Witness ==
    \E i, j, k \in DOMAIN subscriptions :
        /\ i < j
        /\ subscriptions[i].user = subscriptions[j].user
        /\ subscriptions[i].status = "CANCELLED"
        /\ j \in ActiveSubscriptionsOf(subscriptions[j].user)
        /\ subscriptions[k].user # subscriptions[j].user
        /\ k \in ActiveSubscriptionsOf(subscriptions[k].user)

-----------------------------------------------------------------------------
(* Reservation rows *)

\* C28 as stated: a reservation has paid_at set exactly when its status is
\* CONFIRMED or COMPLETED.
C28_PaidIffConfirmed ==
    \A rid \in DOMAIN reservations :
        reservations[rid].paid_at # NoTime
            <=> reservations[rid].status \in {"CONFIRMED", "COMPLETED"}

\* one reservation is CONFIRMED and was never paid, another was paid and
\* is CANCELLED
C28_Witness ==
    \E i, j \in DOMAIN reservations :
        /\ reservations[i].status = "CONFIRMED" /\ reservations[i].paid_at = NoTime
        /\ reservations[j].status = "CANCELLED" /\ reservations[j].paid_at # NoTime

\* C29 as stated: whatever the path that created it, a reservation stores
\* the cancellation_deadline that set_cancellation_deadline gives for its
\* reservation_date.
C29_OneDeadlineAlgorithm ==
    \A rid \in DOMAIN reservations :
        reservations[rid].cancellation_deadline
            = set_cancellation_deadline(reservations[rid].reservation_date)

\* a reservation for Friday 2024-06-14 booked with a subscription stores
\* Wednesday 2024-06-12 23:59, one booked directly for that date stores
\* Tuesday 2024-06-11 23:59
C29_Witness ==
    \E i, j \in DOMAIN reservations :
        /\ reservations[i].via = "subscription"
        /\ reservations[i].reservation_date = 11
        /\ reservations[i].cancellation_deadline = At(9, 23, 59, 0)
        /\ reservations[j].via = "direct"
        /\ reservations[j].reservation_date = 11
        /\ reservations[j].cancellation_deadline = At(8, 23, 59, 0)

\* the PENDING reservations of the user
PendingOf(user) ==
    {rid \in DOMAIN reservations :
        reservations[rid].user = user /\ reservations[rid].status = "PENDING"}

\* the confirmation is a succeeded one without reservation_data, sent to
\* payments.views.ConfirmPaymentView or, with the local development id, to
\* users.views.ConfirmPaymentView: the two that look for a PENDING reservation
ConfirmsPending(q) ==
    /\ q.status_payment = "succeeded"
    /\ q.data = NoData
    /\ \/ q.endpoint = "payments"
       \/ q.endpoint = "users" /\ q.payment_intent_id = LocalDevRef

-----------------------------------------------------------------------------
(* Tickets *)

\* User.available_tickets: tickets.filter(status='ACTIVE',
\* expires_at__gt=now); a row whose expires_at is NULL does not match
available_tickets(user) ==
    {tid \in DOMAIN tickets :
        /\ tickets[tid].user = user
        /\ tickets[tid].status = "ACTIVE"
        /\ tickets[tid].expires_at # NoTime
        /\ tickets[tid].expires_at > now}

\* validity as the claim defines it
ValidAsStated(t) ==
    t.status = "ACTIVE" /\ (t.expires_at = NoTime \/ now < t.expires_at)

\* C31 as stated: a ticket is valid exactly when it is ACTIVE and has no
\* expiry or now < expires_at, and the available tickets of a user are
\* exactly their valid tickets.
C31_TicketValidity ==
    /\ \A tid \in DOMAIN tickets :
          ticket_is_valid(tickets[tid], now) <=> ValidAsStated(tickets[tid])
    /\ \A u \in Users :
          available_tickets(u)
              = {tid \in DOMAIN tickets :
                    tickets[tid].user = u /\ ValidAsStated(tickets[tid])}

\* at the instant an ACTIVE ticket expires, is_valid holds and the ticket
\* is not among the available tickets of its owner
C31_Witness ==
    \E tid \in DOMAIN tickets :
        /\ tickets[tid].status = "ACTIVE"
        /\ now = tickets[tid].expires_at
        /\ ticket_is_valid(tickets[tid], now)
        /\ tid \notin available_tickets(tickets[tid].user)

-----------------------------------------------------------------------------
(* What a member reads about the group of a reservation *)

\* EventGroup.can_reveal_location
can_reveal_location(g) ==
    IF groups[g].location_reveal_time = NoTime THEN FALSE
    ELSE now >= groups[g].location_reveal_time

\* Reservation.group, for a reservation that has one
group(rid) ==
    memberships[CHOOSE m \in DOMAIN memberships :
                    memberships[m].reservation = rid].group

NoGroupInfo == [id |-> NoId]

\* the group_info entry both reservation reads build for a reservation
group_info(rid) ==
    IF ~has_group(rid) THEN NoGroupInfo
    ELSE LET g == group(rid)
         IN  [id |-> g,
              meeting_point_name |-> groups[g].meeting_point_name,
              meeting_point_address |-> groups[g].meeting_point_address,
              location_reveal_time |-> groups[g].location_reveal_time,
              can_reveal_location |-> can_reveal_location(g),
              participants_count |-> participants_count(g),
              max_participants |-> groups[g].max_participants,
              is_confirmed |-> groups[g].is_confirmed]

\* ReservationView.get: the group_info of each reservation of the user
ReservationView_get(user) ==
    [rid \in {i \in DOMAIN reservations : reservations[i].user = user} |->
        group_info(rid)]

\* ReservationDetailView.get: 404 for a reservation that is not the user's
ReservationDetailView_get(user, reservation_id) ==
    IF reservation_id \in DOMAIN reservations
          /\ reservations[reservation_id].user = user
    THEN [code |-> 200, group_info |-> group_info(reservation_id)]
    ELSE [code |-> 404, group_info |-> NoGroupInfo]

\* the change form of EventGroupAdmin: an administrator sets or clears
\* location_reveal_time of a group
SetLocationRevealTime(g, t) ==
    /\ g \in DOMAIN groups
    /\ groups' = [groups EXCEPT ![g].location_reveal_time = t]
    /\ UNCHANGED <<now, reservations, tickets, subscriptions, memberships,
                   requests, probe>>

MaxRevealGroups == 2

\* the second before the reveal instant, and the reveal instant
RevealInstant == At(9, 18, 0, 0)
RevealClock == {RevealInstant - 1, RevealInstant}

RevealIdLists == {<<1>>, <<1, 4>>, <<3>>, <<2>>, <<>>}

NextReveal ==
    /\ UNCHANGED <<last, invitations, accounts>>
    /\ \/ Tick(RevealClock)
       \/ \E ids \in RevealIdLists : CreateGroup(ids)
       \/ \E q \in {{1, 4}, {3}} : create_groups_for_selected(q)
       \/ \E g \in 1 .. MaxRevealGroups, t \in {NoTime, RevealInstant} :
              SetLocationRevealTime(g, t)
    /\ Len(groups') <= MaxRevealGroups

SpecReveal == InitManual /\ [][NextReveal]_vars

\* a read hands out a meeting point
Discloses(info) ==
    /\ info # NoGroupInfo
    /\ info.meeting_point_name # "" \/ info.meeting_point_address # ""

\* the reveal time of the group is set and has come
RevealTimeReached(info) ==
    /\ info.location_reveal_time # NoTime
    /\ now >= info.location_reveal_time

\* C32 as stated: the reservation list and the reservation detail a member
\* reads carry the meeting point name or address of the group only when the
\* reveal time of the group is set and now >= location_reveal_time.
C32_LocationAfterReveal ==
    \A u \in Users :
        /\ \A rid \in DOMAIN ReservationView_get(u) :
              Discloses(ReservationView_get(u)[rid])
                  => RevealTimeReached(ReservationView_get(u)[rid])
        /\ \A rid \in DOMAIN reservations :
              Discloses(ReservationDetailView_get(u, rid).group_info)
                  => RevealTimeReached(ReservationDetailView_get(u, rid).group_info)

\* one second before the reveal time of their group, the list and the
\* detail a member reads hold the meeting point, with can_reveal_location
\* false
C32_Witness ==
    \E u \in Users : \E rid \in DOMAIN ReservationView_get(u) :
        LET info == ReservationView_get(u)[rid]
        IN  /\ info # NoGroupInfo
            /\ info.location_reveal_time = now + 1
            /\ ~info.can_reveal_location
            /\ info.meeting_point_name = RequestedMeetingPoint.name
            /\ ReservationDetailView_get(u, rid).group_info = info

-----------------------------------------------------------------------------
(* What the batch assignment leaves alone *)

\* a GroupMembership row names reservation rid
HoldsMembership(rid) ==
    \E m \in DOMAIN memberships : memberships[m].reservation = rid

\* C33: a batch assignment changes no reservation, no existing membership
\* and no existing group, and every membership it creates is for a selected
\* reservation that was CONFIRMED and held no membership.
C33_BatchSkipsIneligible ==
    [][\A q \in SUBSET DOMAIN ManualBookings :
        create_groups_for_selected(q)
        => /\ reservations' = reservations
           /\ SubSeq(memberships', 1, Len(memberships)) = memberships
           /\ SubSeq(groups', 1, Len(groups)) = groups
           /\ \A m \in DOMAIN memberships' \ DOMAIN memberships :
                 LET rid == memberships'[m].reservation
                 IN  /\ rid \in q
                     /\ reservations[rid].status = "CONFIRMED"
                     /\ ~HoldsMembership(rid)]_vars

\* a group of the batch assignment stands next to an older group made by
\* hand, whose member it did not take, and a cancelled reservation that is
\* in no group
C33_Witness ==
    \E g, h \in DOMAIN groups :
        /\ h < g
        /\ groups[g].max_participants = BatchMaxParticipants
        /\ groups[g].meeting_point_name = NoMeetingPoint.name
        /\ groups[h].meeting_point_name = RequestedMeetingPoint.name
        /\ \E m, n \in DOMAIN memberships :
              /\ memberships[m].group = g
              /\ memberships[n].group = h
              /\ reservations[memberships[m].reservation].status = "CONFIRMED"
        /\ \A m, n \in DOMAIN memberships :
              m # n => memberships[m].reservation # memberships[n].reservation
        /\ \E rid \in DOMAIN reservations :
              reservations[rid].status = "CANCELLED" /\ ~HoldsMembership(rid)

-----------------------------------------------------------------------------
(* Cancelling reservations that are paid or in a group *)

MaxCancelTickets == 3
MaxCancelGroups == 2

\* the reservations of a for Thursday 2024-06-13: two for the same
\* activity, one paid and one not, and a paid one for another activity
CancelBookings ==
    <<[data |-> [activity_name |-> "Bowling", reservation_date |-> 10,
                 price_plan |-> "TICKET", price_amount |-> 25],
       payment_intent_id |-> Ref("pi_", 1)],
      [data |-> [activity_name |-> "Bowling", reservation_date |-> 10,
                 price_plan |-> "TICKET", price_amount |-> 25],
       payment_intent_id |-> NoRef],
      [data |-> [activity_name |-> "Karaoke", reservation_date |-> 10,
                 price_plan |-> "TICKET", price_amount |-> 25],
       payment_intent_id |-> Ref("pi_", 2)]>>

InitCancel ==
    /\ Quiet
    /\ probe = [f |-> "none", date |-> 0, out |-> NoTime]
    /\ reservations =
          [i \in DOMAIN CancelBookings |->
              LET b == CancelBookings[i] IN
              NewReservation("a", b.data, "CONFIRMED",
                             IF b.payment_intent_id = NoRef THEN NoTime ELSE now,
                             b.payment_intent_id, "direct")]

CancelIdLists == {<<1, 2>>, <<1>>, <<3>>}

NextCancel ==
    /\ UNCHANGED <<last, invitations, accounts>>
    /\ \/ Tick(Clock)
       \/ \E ids \in CancelIdLists : CreateGroup(ids)
       \/ \E q \in {{1, 2, 3}, {2}} : create_groups_for_selected(q)
       \/ \E u \in Users, rid \in DOMAIN CancelBookings : CancelReservation(u, rid)
    /\ Len(groups') <= MaxCancelGroups
    /\ Len(tickets') <= MaxCancelTickets

SpecCancel == InitCancel /\ [][NextCancel]_vars

\* EventGroup.participants_count of g after the step
CountAfter(g) ==
    Cardinality({m \in DOMAIN memberships' :
                    /\ memberships'[m].group = g
                    /\ reservations'[memberships'[m].reservation].status = "CONFIRMED"})

\* the tickets issued for the cancellation of reservation rid
CancellationTicketsOf(rid) ==
    {t \in DOMAIN tickets :
        /\ tickets[t].source = "CANCELLATION"
        /\ tickets[t].original_reservation = rid}

\* C34 as stated: an accepted cancellation of a reservation that is in a
\* group keeps every membership and every group's max_participants, lowers
\* the participants_count of its group by exactly one and changes the
\* count of no other group.
C34_CancelLowersCount ==
    [][\A u \in Users, rid \in DOMAIN reservations :
        (/\ HoldsMembership(rid)
         /\ CancelReservationCode(u, rid) = 200
         /\ CancelReservation(u, rid))
        => /\ memberships' = memberships
           /\ DOMAIN groups' = DOMAIN groups
           /\ \A g \in DOMAIN groups :
                 /\ groups'[g].max_participants = groups[g].max_participants
                 /\ CountAfter(g) =
                       participants_count(g) - (IF g = group(rid) THEN 1 ELSE 0)]_vars

\* a reservation of a group was cancelled twice: it holds its membership,
\* it does not count in its group, and each cancellation left a ticket
C34_Witness ==
    \E rid \in DOMAIN reservations :
        /\ HoldsMembership(rid)
        /\ reservations[rid].status = "CANCELLED"
        /\ participants_count(group(rid)) =
              Cardinality({m \in DOMAIN memberships :
                              memberships[m].group = group(rid)}) - 1
        /\ Cardinality(CancellationTicketsOf(rid)) = 2

\* C37 as stated: in every reachable state, at most one ticket with source
\* CANCELLATION names a given reservation as its original_reservation.
C37_OneTicketPerCancelledReservation ==
    \A rid \in DOMAIN reservations : Cardinality(CancellationTicketsOf(rid)) <= 1

\* a reservation that is CANCELLED was cancelled again, and a second ACTIVE
\* ticket of its price was issued for it
C37_Witness ==
    \E rid \in DOMAIN reservations : \E s, t \in CancellationTicketsOf(rid) :
        /\ reservations[rid].status = "CANCELLED"
        /\ s < t
        /\ tickets[s].status = "ACTIVE" /\ tickets[t].status = "ACTIVE"
        /\ tickets[s].amount = reservations[rid].price_amount
        /\ tickets[t].amount = reservations[rid].price_amount

-----------------------------------------------------------------------------
(* Requests that name what another user owns *)

MaxOwnedReservations == 4
MaxOwnershipTickets == 2
MaxOwnershipSubscriptions == 2
MaxOwnershipInvitations == 2

\* the evening every request of this part is about
OwnershipBooking ==
    [activity_name |-> "Bowling", reservation_date |-> 10,
     price_plan |-> "TICKET", price_amount |-> 25]

\* a and b each have a paid reservation for Thursday 2024-06-13
InitOwnership ==
    /\ Quiet
    /\ probe = [f |-> "none", date |-> 0, out |-> NoTime]
    /\ reservations =
          <<NewReservation("a", OwnershipBooking, "CONFIRMED", now, Ref("pi_", 1), "direct"),
            NewReservation("b", OwnershipBooking, "CONFIRMED", now, Ref("pi_", 2), "direct")>>

\* the friends invited in this part: one without account, and user b
OwnershipEmails == {"f", "b"}

NextOwnership ==
    /\ UNCHANGED last
    /\ \/ /\ UNCHANGED <<invitations, accounts>>
          /\ \/ \E u \in Users, rid \in 1 .. MaxOwnedReservations + 1 :
                   CancelReservation(u, rid)
             \/ \E u \in Users, tid \in 1 .. MaxOwnershipTickets + 1 :
                   UseTicket(u, tid, OwnershipBooking)
             \/ \E u \in Users : CreateSubscription(u, "MONTHLY")
             \/ \E u \in Users : CreateReservationWithSubscription(u, OwnershipBooking)
       \/ \E u \in Users, e \in OwnershipEmails, rid \in 1 .. MaxOwnedReservations + 1 :
             CreateFriendInvitation(u, e, rid, "")
    /\ Len(reservations') <= MaxOwnedReservations
    /\ Len(tickets') <= MaxOwnershipTickets
    /\ Len(subscriptions') <= MaxOwnershipSubscriptions
    /\ Len(invitations') <= MaxOwnershipInvitations

SpecOwnership == InitOwnership /\ [][NextOwnership]_vars

\* reservation rid exists and is another user's
OthersReservation(u, rid) ==
    rid \in DOMAIN reservations /\ reservations[rid].user # u

\* ticket tid exists and is another user's
OthersTicket(u, tid) ==
    tid \in DOMAIN tickets /\ tickets[tid].user # u

-----------------------------------------------------------------------------
(* CANCELLED is final *)

\* C36 as stated: no step takes a reservation from CANCELLED to CONFIRMED.
C36_CancelledStaysCancelled ==
    [][\A rid \in DOMAIN reservations :
        reservations[rid].status = "CANCELLED"
        => reservations'[rid].status # "CONFIRMED"]_vars

\* a reservation whose cancellation left a ticket is CONFIRMED again
C36_Witness ==
    \E rid \in DOMAIN reservations :
        /\ reservations[rid].status = "CONFIRMED"
        /\ CancellationTicketsOf(rid) # {}

-----------------------------------------------------------------------------
(* A manual group creation that fails *)

\* C38 as stated: a request to CreateGroupView that does not succeed leaves
\* the groups and the memberships as they were.
C38_FailedCreationLeavesNothing ==
    [][<<groups, memberships>>' # <<groups, memberships>>
       => \A ids \in ManualIdLists :
             CreateGroupCode(ids) # 200 => ~CreateGroup(ids)]_vars

\* a group made by hand has no member: the first membership of the request
\* hit the one-to-one constraint, and the group was left behind
C38_Witness ==
    \E g \in DOMAIN groups :
        /\ groups[g].meeting_point_name = RequestedMeetingPoint.name
        /\ \A m \in DOMAIN memberships : memberships[m].group # g
        /\ \E m \in DOMAIN memberships : memberships[m].group < g

-----------------------------------------------------------------------------
(* Rejected invitation requests *)

\* C39 as stated: a request to CreateFriendInvitationView that is rejected
\* leaves the stored invitations as they were.
C39_RejectedRequestKeepsInvitations ==
    [][invitations' # invitations
       => \A u \in Users, e \in Emails, rid \in 1 .. Len(InvitationBookings) + 1 :
             CreateFriendInvitationCode(u, e, rid) # 200
             => \A msg \in Messages : ~CreateFriendInvitation(u, e, rid, msg)]_vars

\* an invitation was deleted by a request made after the deadline of the
\* Wednesday, and the inviter has no invitation for that friend and that
\* reservation any more
C39_Witness ==
    \E i \in DOMAIN invitations :
        /\ invitations[i].deleted
        /\ now > wednesday_deadline(OccurrenceOf(invitations[i]))
        /\ \A j \in LiveInvitations :
              \/ invitations[j].inviter # invitations[i].inviter
              \/ invitations[j].invited_email # invitations[i].invited_email
              \/ invitations[j].reservation # invitations[i].reservation

-----------------------------------------------------------------------------
(* Invitations for a reservation that its owner cancels *)

MaxCancelledInvitations == 2
MaxCancelledInviteReservations == 3

\* a has one reservation, for Thursday 2024-06-13, paid when it was made
InitAfterCancel ==
    /\ Quiet
    /\ probe = [f |-> "none", date |-> 0, out |-> NoTime]
    /\ reservations =
          <<NewReservation("a", OwnershipBooking, "CONFIRMED", now,
                           Ref("pi_", 1), "direct")>>

NextAfterCancel ==
    /\ UNCHANGED last
    /\ \/ Tick(InviteClock) /\ UNCHANGED <<invitations, accounts>>
       \/ \E u \in Users, rid \in 1 .. MaxCancelledInviteReservations :
             CancelReservation(u, rid) /\ UNCHANGED <<invitations, accounts>>
       \/ \E u \in Users, e \in InviteRunEmails :
             CreateFriendInvitation(u, e, 1, "")
       \/ \E token \in 1 .. MaxCancelledInvitations, e \in InviteRunEmails :
             AcceptInvitation(token, e, "secret")
       \/ \E e \in InviteRunEmails : ProcessInvitedUser(e)
    /\ Len(invitations') <= MaxCancelledInvitations
    /\ Len(reservations') <= MaxCancelledInviteReservations
    /\ Len(tickets') <= MaxCancelTickets

SpecAfterCancel == InitAfterCancel /\ [][NextAfterCancel]_vars

\* the invitations the step turns to USED
UsedByStep ==
    {i \in DOMAIN invitations :
        invitations[i].status # "USED" /\ invitations'[i].status = "USED"}

\* C40 as stated: a step that creates the reservation of an invited user
\* from an invitation does so only while the reservation the invitation is
\* for is CONFIRMED.
C40_MaterializeWhileConfirmed ==
    [][Len(reservations') > Len(reservations)
       => \A i \in UsedByStep :
             reservations[invitations[i].reservation].status = "CONFIRMED"]_vars

\* the inviter cancelled (the ticket of the cancellation dates it), the
\* friend accepted later and the reservation cloned for the friend was
\* made later still, from a reservation that is CANCELLED
C40_Witness ==
    \E i \in LiveInvitations, t \in DOMAIN tickets, rid \in DOMAIN reservations :
        /\ invitations[i].status = "USED"
        /\ reservations[invitations[i].reservation].status = "CANCELLED"
        /\ tickets[t].source = "CANCELLATION"
        /\ tickets[t].original_reservation = invitations[i].reservation
        /\ tickets[t].expires_at - TicketTTLDays * SecondsPerDay
              < invitations[i].accepted_at
        /\ invitations[i].accepted_at <= invitations[i].used_at
        /\ reservations[rid].user = invitations[i].invited_user
        /\ reservations[rid].via = "invitation"
        /\ reservations[rid].status = "PENDING"
        /\ reservations[rid].reservation_date = OccurrenceOf(invitations[i])

====
